---- MODULE Spec2Model ----
(***************************************************************************)
(* Process-hunter skill: the classifier (hunt_processes.py), the scan      *)
(* command built on it, the termination controller                         *)
(* (terminate_process.py) and the baseline commands (measure_power.py).    *)
(*                                                                         *)
(* Strings are sequences of one-character strings, so that regular         *)
(* expression search, lower-casing, concatenation and slicing are computed *)
(* character by character as the Python code computes them.                *)
(***************************************************************************)
EXTENDS Integers, Sequences, FiniteSets, TLC

VARIABLES
  \* the classifier under test
  cName,       \* categorize_process: argument name
  cCommand,    \* categorize_process: argument command
  cResults,    \* the (category, reason) pairs returned by the calls made so far
  \* one run of the scan command (hunt_processes.py main)
  ps_stdout,      \* result.stdout.strip().split("\n"): the lines printed by ps
  cpu_threshold,  \* args.cpu_threshold
  mem_threshold,  \* args.mem_threshold
  as_json,        \* args.json
  scanPc,         \* position in main
  processes,      \* the list returned by get_processes
  printed,        \* what main printed after the banner
  \* the operating system, as seen by terminate_process.py
  procName,    \* comm of the target process
  procAlive,   \* the target pid exists (running or zombie)
  procPerm,    \* the caller is allowed to signal the target
  psWorks,     \* ps can be run and answers
  \* one invocation of terminate(pid, force)
  pid,         \* argument pid
  force,       \* argument force
  pc,          \* position in terminate
  termName,    \* local variable name of terminate; None is the empty string
  sent,        \* signals passed to os.kill so far, in order (0 excluded)
  errnos,      \* what each of these os.kill calls did: "ok" or the errno it raised
  polls,       \* results of is_running inside the polling loop, in order
  sleeps,      \* number of time.sleep(0.5) calls made
  rechecks,    \* results of is_running after the forceful signal
  outcome,     \* the returned (success, message)
  exit_code,   \* terminate_process.py main: << >> while running, then << code >>
  \* the baseline store and the commands of measure_power.py
  baseline_file,  \* BASELINE_FILE: the snapshots the file holds, none while it does not exist
  pmset_stdout,   \* what pmset -g batt printed to the last command that ran it
  top_stdout,     \* the lines ps -r printed to the last command that ran it
  clock,          \* datetime.now(), counted in commands
  argv,           \* the last command: its word, and the numbers given to it
  stdout,         \* what the last command printed
  exception,      \* the exception that ended the last command, or None
  last_before,    \* what the most recent before was given and read
  \* get_comparison_art called on its own
  cmp_before,     \* argument before_min
  cmp_after,      \* argument after_min
  cmp_art,        \* what the call returned, NoComparison before it
  \* a before and an after of two sessions, run step by step on one file
  race_file,  \* BASELINE_FILE: none while absent, Truncated while opened for writing, else the snapshot
  a_pc,  \* after: position in compare_to_baseline and show_impact_report
  a_baseline,  \* after: what compare_to_baseline read from the file
  a_has_baseline,  \* after: has_baseline of show_impact_report
  a_current,  \* after: current and current_procs of show_impact_report
  a_report_baseline,  \* after: what show_impact_report read from the file
  a_ran,  \* after: what it printed, and the exception that ended it or None
  b_pc,  \* before: position in save_baseline
  b_data,  \* before: data of save_baseline
  b_ran, \* before: what it printed, and the exception that ended it or None
  \* runs of tool_ui_compat.py on one project
  components_json,  \* components.json at the project root: none while absent, else its layout and value
  project_root,  \* the rest of the project root: paths, import scans, package.json
  args,  \* args.fix and args.doctor of the last run
  ui_stdout,  \* what the last run printed
  ui_exception,  \* the uncaught exception that ended the last run, or None
  ui_exit_code,  \* exit status of the last run
  runs  \* number of runs made

catVars == << cName, cCommand, cResults >>
scanVars == << ps_stdout, cpu_threshold, mem_threshold, as_json, scanPc, processes, printed >>
osVars == << procName, procAlive, procPerm, psWorks >>
termVars == << pid, force, pc, termName, sent, errnos, polls, sleeps, rechecks, outcome, exit_code >>
powerVars == << baseline_file, pmset_stdout, top_stdout, clock, argv, stdout, exception, last_before >>
cmpVars == << cmp_before, cmp_after, cmp_art >>
raceVars == << race_file, a_pc, a_baseline, a_has_baseline, a_current, a_report_baseline, a_ran, b_pc, b_data, b_ran >>
uiVars == << components_json, project_root, args, ui_stdout, ui_exception, ui_exit_code, runs >>
vars == << catVars, scanVars, osVars, termVars, powerVars, cmpVars, raceVars, uiVars >>

----------------------------------------------------------------------------
(* Characters and strings                                                  *)

\* the upper-case letters and their lower-case forms
UpperToLower ==
  [A |-> "a", B |-> "b", C |-> "c", D |-> "d", E |-> "e", F |-> "f", G |-> "g",
   H |-> "h", I |-> "i", J |-> "j", K |-> "k", L |-> "l", M |-> "m", N |-> "n",
   O |-> "o", P |-> "p", Q |-> "q", R |-> "r", S |-> "s", T |-> "t", U |-> "u",
   V |-> "v", W |-> "w", X |-> "x", Y |-> "y", Z |-> "z"]

\* str.lower() on one character (ASCII range)
LowerChar(c) == IF c \in DOMAIN UpperToLower THEN UpperToLower[c] ELSE c

\* str.lower()
lower(s) == [i \in 1..Len(s) |-> LowerChar(s[i])]

\* s[:n]
Prefix(s, n) == IF Len(s) <= n THEN s ELSE SubSeq(s, 1, n)

----------------------------------------------------------------------------
(* Regular expressions of the pattern tables.  Every pattern of the tables *)
(* is a chain of literals joined by ".*", optionally anchored by ^ and $.  *)

Regex(bol, eol, parts) == [bol |-> bol, eol |-> eol, parts |-> parts]

\* the literal lit occurs in s at position p, compared under re.IGNORECASE
LitAt(lit, s, p) ==
  /\ p + Len(lit) - 1 <= Len(s)
  /\ \A k \in 1..Len(lit) : LowerChar(s[p + k - 1]) = LowerChar(lit[k])

\* "." matches any character except a newline
DotStar(s, from, to) == \A k \in from..(to - 1) : s[k] # "\n"

\* the positions right after a match of parts that starts exactly at p
RECURSIVE MatchEnds(_, _, _)
MatchEnds(parts, s, p) ==
  IF ~LitAt(parts[1], s, p) THEN {}
  ELSE LET q == p + Len(parts[1])
       IN  IF Len(parts) = 1 THEN {q}
           ELSE UNION { MatchEnds(Tail(parts), s, r) :
                        r \in {x \in q..(Len(s) + 1) : DotStar(s, q, x)} }

\* "$" matches at the end of the string and just before a final newline
AtEnd(s, e) == e = Len(s) + 1 \/ (e = Len(s) /\ s[e] = "\n")

\* re.search(pattern, s, re.IGNORECASE) is not None
re_search(re, s) ==
  \E p \in (IF re.bol THEN {1} ELSE 1..(Len(s) + 1)) :
    \E e \in MatchEnds(re.parts, s, p) : re.eol => AtEnd(s, e)

----------------------------------------------------------------------------
(* hunt_processes.py: pattern tables and categorize_process                *)

AUTO_KILL_PATTERNS ==
  <<
    \* next-server
    [re |-> Regex(FALSE, FALSE,
       << <<"n", "e", "x", "t", "-", "s", "e", "r", "v", "e", "r">> >>),
     desc |-> "Next.js fire-eater"],
    \* node.*next.*dev
    [re |-> Regex(FALSE, FALSE,
       << <<"n", "o", "d", "e">>,
          <<"n", "e", "x", "t">>,
          <<"d", "e", "v">> >>),
     desc |-> "Next.js cave server"],
    \* node.*webpack.*dev
    [re |-> Regex(FALSE, FALSE,
       << <<"n", "o", "d", "e">>,
          <<"w", "e", "b", "p", "a", "c", "k">>,
          <<"d", "e", "v">> >>),
     desc |-> "Webpack bundle-beast"],
    \* node.*vite
    [re |-> Regex(FALSE, FALSE,
       << <<"n", "o", "d", "e">>,
          <<"v", "i", "t", "e">> >>),
     desc |-> "Vite speed-demon"],
    \* node.*turbo
    [re |-> Regex(FALSE, FALSE,
       << <<"n", "o", "d", "e">>,
          <<"t", "u", "r", "b", "o">> >>),
     desc |-> "Turbo thunder-lizard"],
    \* npm.*run.*dev
    [re |-> Regex(FALSE, FALSE,
       << <<"n", "p", "m">>,
          <<"r", "u", "n">>,
          <<"d", "e", "v">> >>),
     desc |-> "npm run-run process"],
    \* yarn.*dev
    [re |-> Regex(FALSE, FALSE,
       << <<"y", "a", "r", "n">>,
          <<"d", "e", "v">> >>),
     desc |-> "yarn spinny thing"],
    \* pnpm.*dev
    [re |-> Regex(FALSE, FALSE,
       << <<"p", "n", "p", "m">>,
          <<"d", "e", "v">> >>),
     desc |-> "pnpm tiny demon"],
    \* node.*react-native
    [re |-> Regex(FALSE, FALSE,
       << <<"n", "o", "d", "e">>,
          <<"r", "e", "a", "c", "t", "-", "n", "a", "t", "i", "v", "e">> >>),
     desc |-> "React Native bridge troll"],
    \* node.*expo
    [re |-> Regex(FALSE, FALSE,
       << <<"n", "o", "d", "e">>,
          <<"e", "x", "p", "o">> >>),
     desc |-> "Expo magic box"],
    \* claude
    [re |-> Regex(FALSE, FALSE,
       << <<"c", "l", "a", "u", "d", "e">> >>),
     desc |-> "Claude brain-in-box"],
    \* node.*esbuild
    [re |-> Regex(FALSE, FALSE,
       << <<"n", "o", "d", "e">>,
          <<"e", "s", "b", "u", "i", "l", "d">> >>),
     desc |-> "esbuild fast-maker"],
    \* node.*rollup
    [re |-> Regex(FALSE, FALSE,
       << <<"n", "o", "d", "e">>,
          <<"r", "o", "l", "l", "u", "p">> >>),
     desc |-> "Rollup bundle-roller"],
    \* tsc.*--watch
    [re |-> Regex(FALSE, FALSE,
       << <<"t", "s", "c">>,
          <<"-", "-", "w", "a", "t", "c", "h">> >>),
     desc |-> "TypeScript watcher-eye"]
  >>

IGNORE_PATTERNS ==
  <<
    \* ^kernel_task$
    Regex(TRUE, TRUE,
       << <<"k", "e", "r", "n", "e", "l", "_", "t", "a", "s", "k">> >>),
    \* ^launchd$
    Regex(TRUE, TRUE,
       << <<"l", "a", "u", "n", "c", "h", "d">> >>),
    \* ^WindowServer$
    Regex(TRUE, TRUE,
       << <<"W", "i", "n", "d", "o", "w", "S", "e", "r", "v", "e", "r">> >>),
    \* ^coreaudiod$
    Regex(TRUE, TRUE,
       << <<"c", "o", "r", "e", "a", "u", "d", "i", "o", "d">> >>),
    \* ^loginwindow$
    Regex(TRUE, TRUE,
       << <<"l", "o", "g", "i", "n", "w", "i", "n", "d", "o", "w">> >>),
    \* ^Finder$
    Regex(TRUE, TRUE,
       << <<"F", "i", "n", "d", "e", "r">> >>),
    \* ^Dock$
    Regex(TRUE, TRUE,
       << <<"D", "o", "c", "k">> >>),
    \* ^SystemUIServer$
    Regex(TRUE, TRUE,
       << <<"S", "y", "s", "t", "e", "m", "U", "I", "S", "e", "r", "v", "e", "r">> >>),
    \* ^mds_stores$
    Regex(TRUE, TRUE,
       << <<"m", "d", "s", "_", "s", "t", "o", "r", "e", "s">> >>),
    \* ^mds$
    Regex(TRUE, TRUE,
       << <<"m", "d", "s">> >>),
    \* ^mdworker
    Regex(TRUE, FALSE,
       << <<"m", "d", "w", "o", "r", "k", "e", "r">> >>),
    \* ^spotlight
    Regex(TRUE, FALSE,
       << <<"s", "p", "o", "t", "l", "i", "g", "h", "t">> >>),
    \* ^cfprefsd$
    Regex(TRUE, TRUE,
       << <<"c", "f", "p", "r", "e", "f", "s", "d">> >>),
    \* ^distnoted$
    Regex(TRUE, TRUE,
       << <<"d", "i", "s", "t", "n", "o", "t", "e", "d">> >>),
    \* ^trustd$
    Regex(TRUE, TRUE,
       << <<"t", "r", "u", "s", "t", "d">> >>),
    \* ^securityd$
    Regex(TRUE, TRUE,
       << <<"s", "e", "c", "u", "r", "i", "t", "y", "d">> >>)
  >>
\* f"{name} {command}".lower()
full_str(name, command) == lower(name \o << " " >> \o command)

\* the loop over IGNORE_PATTERNS, from index i on
RECURSIVE IgnoreFrom(_, _)
IgnoreFrom(i, name) ==
  IF i > Len(IGNORE_PATTERNS) THEN FALSE
  ELSE IF re_search(IGNORE_PATTERNS[i], name) THEN TRUE
  ELSE IgnoreFrom(i + 1, name)

\* AutoKillFrom without the final return: the function falls off its end
RECURSIVE AutoKillFrom_NoFallback(_, _)
AutoKillFrom_NoFallback(i, s) ==
  IF i > Len(AUTO_KILL_PATTERNS)
  THEN [category |-> "None", reason |-> "None"]
  ELSE IF re_search(AUTO_KILL_PATTERNS[i].re, s)
  THEN [category |-> "AUTO_KILL", reason |-> AUTO_KILL_PATTERNS[i].desc]
  ELSE AutoKillFrom_NoFallback(i + 1, s)

\* AutoKillFrom with the loop not left at the first match: the last match wins
RECURSIVE AutoKillFrom_LastMatch(_, _)
AutoKillFrom_LastMatch(i, s) ==
  IF i > Len(AUTO_KILL_PATTERNS)
  THEN [category |-> "ASK", reason |-> "Mystery creature - me not know"]
  ELSE LET later == AutoKillFrom_LastMatch(i + 1, s)
       IN  IF later.category = "AUTO_KILL" THEN later
           ELSE IF re_search(AUTO_KILL_PATTERNS[i].re, s)
           THEN [category |-> "AUTO_KILL", reason |-> AUTO_KILL_PATTERNS[i].desc]
           ELSE later

\* the loop over AUTO_KILL_PATTERNS, from index i on, and the final return
RECURSIVE AutoKillFrom(_, _)
AutoKillFrom(i, s) ==
  IF i > Len(AUTO_KILL_PATTERNS)
  THEN [category |-> "ASK", reason |-> "Mystery creature - me not know"]
  ELSE IF re_search(AUTO_KILL_PATTERNS[i].re, s)
  THEN [category |-> "AUTO_KILL", reason |-> AUTO_KILL_PATTERNS[i].desc]
  ELSE AutoKillFrom(i + 1, s)

\* categorize_process with the two loops in the other order
categorize_process_AutoKillFirst(name, command) ==
  LET r == AutoKillFrom(1, full_str(name, command))
  IN  IF r.category = "AUTO_KILL" THEN r
      ELSE IF IgnoreFrom(1, name)
      THEN [category |-> "IGNORE", reason |-> "Sacred spirit - NO TOUCH"]
      ELSE r

categorize_process(name, command) ==
  IF IgnoreFrom(1, name)
  THEN [category |-> "IGNORE", reason |-> "Sacred spirit - NO TOUCH"]
  ELSE AutoKillFrom(1, full_str(name, command))

Category == {"AUTO_KILL", "ASK", "IGNORE"}

----------------------------------------------------------------------------
(* hunt_processes.py: get_processes, format_output and main                *)
(*                                                                         *)
(* Numbers.  ps prints pcpu with one decimal and rss as a whole number of  *)
(* KB, and the thresholds are given with at most one decimal, so a float   *)
(* is kept as the integer number of its tenths: cpu and the CPU threshold  *)
(* in 1/10 %, mem_kb in 1/10 KB, the memory threshold in 1/10 MB.          *)
(* mem_mb = mem_kb / 1024 is kept in units of 1/10240 MB, which leaves the *)
(* integer unchanged; all comparisons below are exact in these units.      *)

IsSpace(c) == c \in {" ", "\t"}

Digits == << "0", "1", "2", "3", "4", "5", "6", "7", "8", "9" >>
IsDigit(c) == \E d \in 1..10 : Digits[d] = c
DigitVal(c) == (CHOOSE d \in 1..10 : Digits[d] = c) - 1

\* index of the first character of s at or after i that is (not) a space
FirstNonSpace(s, i) ==
  IF \E j \in i..Len(s) : ~IsSpace(s[j])
  THEN CHOOSE j \in i..Len(s) : ~IsSpace(s[j]) /\ \A k \in i..(j - 1) : IsSpace(s[k])
  ELSE Len(s) + 1

FirstSpace(s, i) ==
  IF \E j \in i..Len(s) : IsSpace(s[j])
  THEN CHOOSE j \in i..Len(s) : IsSpace(s[j]) /\ \A k \in i..(j - 1) : ~IsSpace(s[k])
  ELSE Len(s) + 1

\* s.split(None, maxsplit)
RECURSIVE split(_, _)
split(s, maxsplit) ==
  LET a == FirstNonSpace(s, 1)
  IN  IF a > Len(s) THEN << >>
      ELSE IF maxsplit = 0 THEN << SubSeq(s, a, Len(s)) >>
      ELSE LET b == FirstSpace(s, a)
           IN  << SubSeq(s, a, b - 1) >> \o split(SubSeq(s, b, Len(s)), maxsplit - 1)

\* value of a string of decimal digits
RECURSIVE DecimalValue(_)
DecimalValue(s) ==
  IF s = << >> THEN 0
  ELSE 10 * DecimalValue(SubSeq(s, 1, Len(s) - 1)) + DigitVal(s[Len(s)])

AllDigits(s) == \A i \in 1..Len(s) : IsDigit(s[i])

\* int(s): ok is FALSE where int raises ValueError
int(s) ==
  LET signed == s # << >> /\ s[1] \in {"+", "-"}
      body == IF signed THEN Tail(s) ELSE s
  IN  IF body # << >> /\ AllDigits(body)
      THEN [ok |-> TRUE,
            val |-> IF signed /\ s[1] = "-" THEN 0 - DecimalValue(body) ELSE DecimalValue(body)]
      ELSE [ok |-> FALSE, val |-> 0]

\* float(s), in tenths: ok is FALSE where float raises ValueError
float(s) ==
  LET signed == s # << >> /\ s[1] \in {"+", "-"}
      body == IF signed THEN Tail(s) ELSE s
      dot == IF \E i \in 1..Len(body) : body[i] = "."
             THEN CHOOSE i \in 1..Len(body) : body[i] = "." /\ \A k \in 1..(i - 1) : body[k] # "."
             ELSE Len(body) + 1
      whole == SubSeq(body, 1, dot - 1)
      frac == SubSeq(body, dot + 1, Len(body))
      tenths == 10 * DecimalValue(whole) + (IF frac = << >> THEN 0 ELSE DigitVal(frac[1]))
  IN  IF AllDigits(whole) /\ AllDigits(frac) /\ Len(whole) + Len(frac) > 0 /\ Len(frac) <= 1
      THEN [ok |-> TRUE, val |-> IF signed /\ s[1] = "-" THEN 0 - tenths ELSE tenths]
      ELSE [ok |-> FALSE, val |-> 0]

\* "hunt_processes" in command
InString(needle, s) ==
  \E p \in 1..(Len(s) + 1) :
    /\ p + Len(needle) - 1 <= Len(s)
    /\ \A k \in 1..Len(needle) : s[p + k - 1] = needle[k]

SelfMarker == <<"h", "u", "n", "t", "_", "p", "r", "o", "c", "e", "s", "s", "e", "s">>

\* command[:100]
CommandDisplayLen == 100

\* the key with the memory term not divided by 100
SortKey_MemUndivided(p) == p.cpu_percent * 1024 + p.mem_mb

\* the sort key p.cpu_percent + (p.mem_mb / 100), in units of 1/1024000
SortKey(p) == p.cpu_percent * 102400 + p.mem_mb

\* a line on which the loop body reaches the threshold test: five columns and
\* a pid, a %CPU and an RSS that int() and float() accept
WellFormed(line) ==
  LET parts == split(line, 4)
  IN  /\ Len(parts) >= 5
      /\ int(parts[1]).ok
      /\ float(parts[2]).ok
      /\ float(parts[3]).ok

\* the threshold test with or: a row must breach both axes to be kept
ScanLine_BothAxes(acc, line, cpu_thr, mem_thr) ==
  LET parts == split(line, 4)
  IN  IF Len(parts) < 5 THEN acc
      ELSE LET pidv == int(parts[1])
               cpu == float(parts[2])
               mem_kb == float(parts[3])
               name == parts[4]
               command == parts[5]
               mem_mb == mem_kb.val
               cat == categorize_process(name, command)
           IN  IF ~(pidv.ok /\ cpu.ok /\ mem_kb.ok) THEN acc
               ELSE IF cpu.val < cpu_thr \/ mem_mb < mem_thr * 1024 THEN acc
               ELSE IF InString(SelfMarker, command) THEN acc
               ELSE Append(acc, [pid |-> pidv.val,
                                 name |-> name,
                                 cpu_percent |-> cpu.val,
                                 mem_mb |-> mem_mb,
                                 command |-> Prefix(command, CommandDisplayLen),
                                 category |-> cat.category,
                                 reason |-> cat.reason])

\* the self-exclusion test made on the truncated command
ScanLine_TruncatedMarker(acc, line, cpu_thr, mem_thr) ==
  LET parts == split(line, 4)
  IN  IF Len(parts) < 5 THEN acc
      ELSE LET pidv == int(parts[1])
               cpu == float(parts[2])
               mem_kb == float(parts[3])
               name == parts[4]
               command == parts[5]
               mem_mb == mem_kb.val
               cat == categorize_process(name, command)
           IN  IF ~(pidv.ok /\ cpu.ok /\ mem_kb.ok) THEN acc
               ELSE IF cpu.val < cpu_thr /\ mem_mb < mem_thr * 1024 THEN acc
               ELSE IF InString(SelfMarker, Prefix(command, CommandDisplayLen)) THEN acc
               ELSE Append(acc, [pid |-> pidv.val,
                                 name |-> name,
                                 cpu_percent |-> cpu.val,
                                 mem_mb |-> mem_mb,
                                 command |-> Prefix(command, CommandDisplayLen),
                                 category |-> cat.category,
                                 reason |-> cat.reason])

\* the classification made on the truncated command
ScanLine_TruncatedCategory(acc, line, cpu_thr, mem_thr) ==
  LET parts == split(line, 4)
  IN  IF Len(parts) < 5 THEN acc
      ELSE LET pidv == int(parts[1])
               cpu == float(parts[2])
               mem_kb == float(parts[3])
               name == parts[4]
               command == parts[5]
               mem_mb == mem_kb.val
               cat == categorize_process(name, Prefix(command, CommandDisplayLen))
           IN  IF ~(pidv.ok /\ cpu.ok /\ mem_kb.ok) THEN acc
               ELSE IF cpu.val < cpu_thr /\ mem_mb < mem_thr * 1024 THEN acc
               ELSE IF InString(SelfMarker, command) THEN acc
               ELSE Append(acc, [pid |-> pidv.val,
                                 name |-> name,
                                 cpu_percent |-> cpu.val,
                                 mem_mb |-> mem_mb,
                                 command |-> Prefix(command, CommandDisplayLen),
                                 category |-> cat.category,
                                 reason |-> cat.reason])

\* one iteration of the loop over the lines: the list with the line's record
\* appended, or the list unchanged where the body runs into a continue
ScanLine(acc, line, cpu_thr, mem_thr) ==
  LET parts == split(line, 4)
  IN  IF Len(parts) < 5 THEN acc
      ELSE LET pidv == int(parts[1])
               cpu == float(parts[2])
               mem_kb == float(parts[3])
               name == parts[4]
               command == parts[5]
               mem_mb == mem_kb.val
               cat == categorize_process(name, command)
           IN  IF ~(pidv.ok /\ cpu.ok /\ mem_kb.ok) THEN acc
               ELSE IF cpu.val < cpu_thr /\ mem_mb < mem_thr * 1024 THEN acc
               ELSE IF InString(SelfMarker, command) THEN acc
               ELSE Append(acc, [pid |-> pidv.val,
                                 name |-> name,
                                 cpu_percent |-> cpu.val,
                                 mem_mb |-> mem_mb,
                                 command |-> Prefix(command, CommandDisplayLen),
                                 category |-> cat.category,
                                 reason |-> cat.reason])

\* the loop left at the first line that is not well formed
RECURSIVE ScanLines_Abort(_, _, _, _)
ScanLines_Abort(acc, lines, cpu_thr, mem_thr) ==
  IF lines = << >> \/ ~WellFormed(Head(lines)) THEN acc
  ELSE ScanLines_Abort(ScanLine(acc, Head(lines), cpu_thr, mem_thr), Tail(lines), cpu_thr, mem_thr)

RECURSIVE ScanLines(_, _, _, _)
ScanLines(acc, lines, cpu_thr, mem_thr) ==
  IF lines = << >> THEN acc
  ELSE ScanLines(ScanLine(acc, Head(lines), cpu_thr, mem_thr), Tail(lines), cpu_thr, mem_thr)

\* list.sort(key, reverse=True): descending and stable
RECURSIVE InsertByKey(_, _)
InsertByKey(sorted, p) ==
  IF sorted = << >> THEN << p >>
  ELSE IF SortKey(Head(sorted)) >= SortKey(p)
  THEN << Head(sorted) >> \o InsertByKey(Tail(sorted), p)
  ELSE << p >> \o sorted

RECURSIVE SortProcesses(_)
SortProcesses(ps) ==
  IF ps = << >> THEN << >>
  ELSE InsertByKey(SortProcesses(SubSeq(ps, 1, Len(ps) - 1)), ps[Len(ps)])

\* get_processes on the lines of ps: the header line [0] is dropped
get_processes(lines, cpu_thr, mem_thr) ==
  SortProcesses(ScanLines(<< >>, Tail(lines), cpu_thr, mem_thr))

\* round(mem_mb, 1) and the format :.1f, in 1/10 MB (ties go to the even digit)
RoundTenthsMB(mem_mb) ==
  LET q == mem_mb \div 1024
      r == mem_mb % 1024
  IN  IF r > 512 \/ (r = 512 /\ q % 2 = 1) THEN q + 1 ELSE q

Min(a, b) == IF a <= b THEN a ELSE b

SelectSeq2(ps, cat) == SelectSeq(ps, LAMBDA p : p.category = cat)

JsonEntry(p) ==
  [pid |-> p.pid, name |-> p.name, cpu_percent |-> p.cpu_percent,
   mem_mb |-> RoundTenthsMB(p.mem_mb), command |-> p.command,
   category |-> p.category, reason |-> p.reason]

\* the block of lines of one process in a text section; record is the
\* ProcessInfo the block shows
TextEntry(section, p) ==
  [section |-> section,
   pid |-> p.pid,
   fire_pct |-> p.cpu_percent,
   fire |-> Min(p.cpu_percent \div 200 + 1, 5),
   rock_mb |-> RoundTenthsMB(p.mem_mb),
   rocks |-> Min(p.mem_mb \div 5120000 + 1, 5),
   what |-> IF section = "BONK NOW" THEN [reason |-> p.reason, name |-> p.name]
            ELSE [command |-> Prefix(p.command, 50)],
   record |-> p]

\* format_output(processes, as_json)
format_output(ps, json) ==
  IF json
  THEN [format |-> "json", entries |-> [i \in 1..Len(ps) |-> JsonEntry(ps[i])]]
  ELSE LET auto_kill == SelectSeq2(ps, "AUTO_KILL")
           ask == SelectSeq2(ps, "ASK")
       IN  [format |-> "text",
            entries |-> [i \in 1..Len(auto_kill) |-> TextEntry("BONK NOW", auto_kill[i])]
                        \o [i \in 1..Len(ask) |-> TextEntry("ME NOT SURE", ask[i])],
            cave_clean |-> auto_kill = << >> /\ ask = << >>]

NothingPrinted == [format |-> "none", entries |-> << >>]

\* main: processes = get_processes(args.cpu_threshold, args.mem_threshold)
CallGetProcesses ==
  /\ scanPc = "start"
  /\ processes' = get_processes(ps_stdout, cpu_threshold, mem_threshold)
  /\ scanPc' = "print"
  /\ UNCHANGED << ps_stdout, cpu_threshold, mem_threshold, as_json, printed >>
  /\ UNCHANGED << catVars, osVars, termVars, powerVars, cmpVars, raceVars, uiVars >>

\* PrintOutput with the list of get_processes passed on unfiltered
PrintOutput_Unfiltered ==
  /\ scanPc = "print"
  /\ printed' = format_output(processes, as_json)
  /\ scanPc' = "done"
  /\ UNCHANGED << ps_stdout, cpu_threshold, mem_threshold, as_json, processes >>
  /\ UNCHANGED << catVars, osVars, termVars, powerVars, cmpVars, raceVars, uiVars >>

\* main: visible = [...]; print(format_output(visible, args.json))
PrintOutput ==
  /\ scanPc = "print"
  /\ LET visible == SelectSeq(processes, LAMBDA p : p.category # "IGNORE")
     IN  printed' = format_output(visible, as_json)
  /\ scanPc' = "done"
  /\ UNCHANGED << ps_stdout, cpu_threshold, mem_threshold, as_json, processes >>
  /\ UNCHANGED << catVars, osVars, termVars, powerVars, cmpVars, raceVars, uiVars >>

----------------------------------------------------------------------------
(* terminate_process.py                                                    *)

None == ""

\* an f-string: its text with the placeholders, and the values put in them
Message(template, n, p, e) == [template |-> template, name |-> n, pid |-> p, e |-> e]

NoMessage == Message("", None, 0, "")

MsgGone(p) ==
  Message("Ugh! Process {pid} already gone. Maybe mammoth step on it?", None, p, "")
MsgForceDone(n, p) ==
  Message("OOGA BOOGA! Me use BIG CLUB on {name} (PID {pid})! Process flat now.", n, p, "")
MsgForcePermission(n, p) ==
  Message("Grunt! Cave spirits say no touch {name} (PID {pid}). Need more shaman power.", n, p, "")
MsgForceOSError(n, e) ==
  Message("Ugh! Something go wrong bonking {name}: {e}", n, 0, e)
MsgPeaceful(n) ==
  Message("    {name} listen to caveman! Walk away peaceful. Good process.", n, 0, "")
MsgBonk(n, p) ==
  Message("    BONK! {name} (PID {pid}) no more. Should have listened first time!", n, p, "")
MsgImpossible(n) ==
  Message("    Impossible! {name} still alive after big club! Must be spirit!", n, 0, "")
MsgPermission(n, p) ==
  Message("    Cave spirits protect {name} (PID {pid}). Me not strong enough.", n, p, "")
MsgOSError(e) ==
  Message("    Ugh! Me club hit rock instead: {e}", None, 0, e)

\* range(6)
PollAttempts == 6

\* os.kill(pid, sig): "ok", or the errno of the OSError it raises
os_kill ==
  IF ~procAlive THEN "ESRCH"
  ELSE IF ~procPerm THEN "EPERM"
  ELSE "ok"

\* is_running(pid): os.kill(pid, 0) raised no OSError
is_running == os_kill = "ok"

\* get_process_name(pid): the stripped output of ps, or None
get_process_name == IF psWorks /\ procAlive THEN procName ELSE None

Return(success, message) ==
  /\ pc' = "done"
  /\ outcome' = [success |-> success, message |-> message]

\* ResolveName without the test of the name
ResolveName_Unchecked ==
  /\ pc = "start"
  /\ termName' = get_process_name
  /\ pc' = IF force THEN "force_kill" ELSE "sigterm"
  /\ UNCHANGED << pid, force, sent, errnos, polls, sleeps, rechecks, outcome >>
  /\ UNCHANGED << catVars, scanVars, osVars, exit_code, powerVars, cmpVars, raceVars, uiVars >>

\* name = get_process_name(pid); if not name: return ...; if force: ...
ResolveName ==
  /\ pc = "start"
  /\ termName' = get_process_name
  /\ IF termName' = None THEN Return(FALSE, MsgGone(pid))
     ELSE /\ pc' = IF force THEN "force_kill" ELSE "sigterm"
          /\ UNCHANGED outcome
  /\ UNCHANGED << pid, force, sent, errnos, polls, sleeps, rechecks >>
  /\ UNCHANGED << catVars, scanVars, osVars, exit_code, powerVars, cmpVars, raceVars, uiVars >>

\* ForceKill with the polite signal sent first
ForceKill_TermFirst ==
  /\ pc = "force_kill"
  /\ sent' = sent \o << "SIGTERM", "SIGKILL" >>
  /\ errnos' = errnos \o << os_kill, os_kill >>
  /\ CASE os_kill = "ok" -> Return(TRUE, MsgForceDone(termName, pid))
       [] os_kill = "EPERM" -> Return(FALSE, MsgForcePermission(termName, pid))
       [] OTHER -> Return(FALSE, MsgForceOSError(termName, os_kill))
  /\ UNCHANGED << pid, force, termName, polls, sleeps, rechecks >>
  /\ UNCHANGED << catVars, scanVars, osVars, exit_code, powerVars, cmpVars, raceVars, uiVars >>

\* ForceKill with a liveness check after the signal, as in graceful mode
ForceKill_Recheck ==
  /\ pc = "force_kill"
  /\ sent' = Append(sent, "SIGKILL")
  /\ errnos' = Append(errnos, os_kill)
  /\ rechecks' = IF os_kill = "ok" THEN Append(rechecks, is_running) ELSE rechecks
  /\ CASE os_kill = "ok" /\ ~is_running -> Return(TRUE, MsgForceDone(termName, pid))
       [] os_kill = "ok" /\ is_running -> Return(FALSE, MsgImpossible(termName))
       [] os_kill = "EPERM" -> Return(FALSE, MsgForcePermission(termName, pid))
       [] OTHER -> Return(FALSE, MsgForceOSError(termName, os_kill))
  /\ UNCHANGED << pid, force, termName, polls, sleeps >>
  /\ UNCHANGED << catVars, scanVars, osVars, exit_code, powerVars, cmpVars, raceVars, uiVars >>

\* forced mode: os.kill(pid, signal.SIGKILL) and its except clauses
ForceKill ==
  /\ pc = "force_kill"
  /\ sent' = Append(sent, "SIGKILL")
  /\ errnos' = Append(errnos, os_kill)
  /\ CASE os_kill = "ok" -> Return(TRUE, MsgForceDone(termName, pid))
       [] os_kill = "EPERM" -> Return(FALSE, MsgForcePermission(termName, pid))
       [] OTHER -> Return(FALSE, MsgForceOSError(termName, os_kill))
  /\ UNCHANGED << pid, force, termName, polls, sleeps, rechecks >>
  /\ UNCHANGED << catVars, scanVars, osVars, exit_code, powerVars, cmpVars, raceVars, uiVars >>

\* SendSigterm with only "except PermissionError": any other OSError leaves
\* terminate as an exception
SendSigterm_OnlyPermission ==
  /\ pc = "sigterm"
  /\ sent' = Append(sent, "SIGTERM")
  /\ errnos' = Append(errnos, os_kill)
  /\ CASE os_kill = "ok" -> pc' = "sleep" /\ UNCHANGED outcome
       [] os_kill = "EPERM" -> Return(FALSE, MsgPermission(termName, pid))
       [] OTHER -> pc' = "raised" /\ UNCHANGED outcome
  /\ UNCHANGED << pid, force, termName, polls, sleeps, rechecks >>
  /\ UNCHANGED << catVars, scanVars, osVars, exit_code, powerVars, cmpVars, raceVars, uiVars >>

\* graceful mode: os.kill(pid, signal.SIGTERM)
SendSigterm ==
  /\ pc = "sigterm"
  /\ sent' = Append(sent, "SIGTERM")
  /\ errnos' = Append(errnos, os_kill)
  /\ CASE os_kill = "ok" -> pc' = "sleep" /\ UNCHANGED outcome
       [] os_kill = "EPERM" -> Return(FALSE, MsgPermission(termName, pid))
       [] OTHER -> Return(FALSE, MsgOSError(os_kill))
  /\ UNCHANGED << pid, force, termName, polls, sleeps, rechecks >>
  /\ UNCHANGED << catVars, scanVars, osVars, exit_code, powerVars, cmpVars, raceVars, uiVars >>

\* time.sleep(0.5) at the top of the loop body
PollSleep ==
  /\ pc = "sleep"
  /\ sleeps' = sleeps + 1
  /\ pc' = "poll"
  /\ UNCHANGED << pid, force, termName, sent, errnos, polls, rechecks, outcome >>
  /\ UNCHANGED << catVars, scanVars, osVars, exit_code, powerVars, cmpVars, raceVars, uiVars >>

\* Poll without the return inside the loop
Poll_NoEarlyReturn ==
  /\ pc = "poll"
  /\ polls' = Append(polls, is_running)
  /\ pc' = IF Len(polls') < PollAttempts THEN "sleep" ELSE "sigkill"
  /\ UNCHANGED << pid, force, termName, sent, errnos, sleeps, rechecks, outcome >>
  /\ UNCHANGED << catVars, scanVars, osVars, exit_code, powerVars, cmpVars, raceVars, uiVars >>

\* Poll with the loop one iteration short
Poll_OneShort ==
  /\ pc = "poll"
  /\ polls' = Append(polls, is_running)
  /\ IF ~is_running THEN Return(TRUE, MsgPeaceful(termName))
     ELSE /\ pc' = IF Len(polls') < PollAttempts - 1 THEN "sleep" ELSE "sigkill"
          /\ UNCHANGED outcome
  /\ UNCHANGED << pid, force, termName, sent, errnos, sleeps, rechecks >>
  /\ UNCHANGED << catVars, scanVars, osVars, exit_code, powerVars, cmpVars, raceVars, uiVars >>

\* if not is_running(pid): return True, ...; else the next iteration or the end of the loop
Poll ==
  /\ pc = "poll"
  /\ polls' = Append(polls, is_running)
  /\ IF ~is_running THEN Return(TRUE, MsgPeaceful(termName))
     ELSE /\ pc' = IF Len(polls') < PollAttempts THEN "sleep" ELSE "sigkill"
          /\ UNCHANGED outcome
  /\ UNCHANGED << pid, force, termName, sent, errnos, sleeps, rechecks >>
  /\ UNCHANGED << catVars, scanVars, osVars, exit_code, powerVars, cmpVars, raceVars, uiVars >>

\* SendSigkill that takes a target already gone for a kill that worked
SendSigkill_GoneIsDone ==
  /\ pc = "sigkill"
  /\ sent' = Append(sent, "SIGKILL")
  /\ errnos' = Append(errnos, os_kill)
  /\ CASE os_kill = "ok" -> pc' = "settle" /\ UNCHANGED outcome
       [] os_kill = "EPERM" -> Return(FALSE, MsgPermission(termName, pid))
       [] OTHER -> Return(TRUE, MsgBonk(termName, pid))
  /\ UNCHANGED << pid, force, termName, polls, sleeps, rechecks >>
  /\ UNCHANGED << catVars, scanVars, osVars, exit_code, powerVars, cmpVars, raceVars, uiVars >>

\* os.kill(pid, signal.SIGKILL) after the loop
SendSigkill ==
  /\ pc = "sigkill"
  /\ sent' = Append(sent, "SIGKILL")
  /\ errnos' = Append(errnos, os_kill)
  /\ CASE os_kill = "ok" -> pc' = "settle" /\ UNCHANGED outcome
       [] os_kill = "EPERM" -> Return(FALSE, MsgPermission(termName, pid))
       [] OTHER -> Return(FALSE, MsgOSError(os_kill))
  /\ UNCHANGED << pid, force, termName, polls, sleeps, rechecks >>
  /\ UNCHANGED << catVars, scanVars, osVars, exit_code, powerVars, cmpVars, raceVars, uiVars >>

\* time.sleep(0.5) after the forceful signal
Settle ==
  /\ pc = "settle"
  /\ sleeps' = sleeps + 1
  /\ pc' = "recheck"
  /\ UNCHANGED << pid, force, termName, sent, errnos, polls, rechecks, outcome >>
  /\ UNCHANGED << catVars, scanVars, osVars, exit_code, powerVars, cmpVars, raceVars, uiVars >>

\* Recheck reporting a survivor with the message of the permission failure
Recheck_WrongMessage ==
  /\ pc = "recheck"
  /\ rechecks' = Append(rechecks, is_running)
  /\ IF ~is_running THEN Return(TRUE, MsgBonk(termName, pid))
     ELSE Return(FALSE, MsgPermission(termName, pid))
  /\ UNCHANGED << pid, force, termName, sent, errnos, polls, sleeps >>
  /\ UNCHANGED << catVars, scanVars, osVars, exit_code, powerVars, cmpVars, raceVars, uiVars >>

\* Recheck that goes back to waiting while the process is alive
Recheck_Again ==
  /\ pc = "recheck"
  /\ rechecks' = Append(rechecks, is_running)
  /\ IF ~is_running THEN Return(TRUE, MsgBonk(termName, pid))
     ELSE pc' = "settle" /\ UNCHANGED outcome
  /\ UNCHANGED << pid, force, termName, sent, errnos, polls, sleeps >>
  /\ UNCHANGED << catVars, scanVars, osVars, exit_code, powerVars, cmpVars, raceVars, uiVars >>

\* if not is_running(pid): return True, ... else: return False, ...
Recheck ==
  /\ pc = "recheck"
  /\ rechecks' = Append(rechecks, is_running)
  /\ IF ~is_running THEN Return(TRUE, MsgBonk(termName, pid))
     ELSE Return(FALSE, MsgImpossible(termName))
  /\ UNCHANGED << pid, force, termName, sent, errnos, polls, sleeps >>
  /\ UNCHANGED << catVars, scanVars, osVars, exit_code, powerVars, cmpVars, raceVars, uiVars >>

\* the target exits (on its own or in reaction to a signal) while terminate runs
ProcessExits ==
  /\ pc # "done"
  /\ procAlive
  /\ procAlive' = FALSE
  /\ UNCHANGED << procName, procPerm, psWorks >>
  /\ UNCHANGED << catVars, scanVars, termVars, powerVars, cmpVars, raceVars, uiVars >>

\* Exit with the codes the other way round
Exit_Swapped ==
  /\ pc = "done"
  /\ exit_code = << >>
  /\ exit_code' = << IF outcome.success THEN 1 ELSE 0 >>
  /\ UNCHANGED << pid, force, pc, termName, sent, errnos, polls, sleeps, rechecks, outcome >>
  /\ UNCHANGED << catVars, scanVars, osVars, powerVars, cmpVars, raceVars, uiVars >>

\* main: success, message = terminate(...); print(message); sys.exit(0 if success else 1)
Exit ==
  /\ pc = "done"
  /\ exit_code = << >>
  /\ exit_code' = << IF outcome.success THEN 0 ELSE 1 >>
  /\ UNCHANGED << pid, force, pc, termName, sent, errnos, polls, sleeps, rechecks, outcome >>
  /\ UNCHANGED << catVars, scanVars, osVars, powerVars, cmpVars, raceVars, uiVars >>

terminate ==
  \/ ResolveName
  \/ ForceKill
  \/ SendSigterm
  \/ PollSleep
  \/ Poll
  \/ SendSigkill
  \/ Settle
  \/ Recheck

----------------------------------------------------------------------------
(* measure_power.py                                                        *)
(*                                                                         *)
(* A value that may be None (a percentage, a number of minutes, a match of *)
(* a regular expression) is << >> for None and << v >> otherwise; a string  *)
(* that may be None is << >> for None, the strings in question being never  *)
(* empty.  json.dumps followed by json.loads gives back the snapshot as it  *)
(* was (string keys, ints, floats, strings, None and lists of them), so    *)
(* the content of the file is kept as the snapshot itself.  cpu is in 1/10  *)
(* %, mem_mb in units of 1/10240 MB and mem_freed_mb in 1/10 MB.            *)

Whitespace == {" ", "\t", "\n", "\r"}

\* s.strip()
strip(s) ==
  LET keep == { i \in 1..Len(s) : s[i] \notin Whitespace }
  IN  IF keep = {} THEN << >>
      ELSE SubSeq(s, CHOOSE i \in keep : \A k \in keep : i <= k,
                     CHOOSE j \in keep : \A k \in keep : k <= j)

\* lit occurs in s at position p, letter case included
ExactAt(lit, s, p) ==
  /\ p >= 1
  /\ p + Len(lit) - 1 <= Len(s)
  /\ \A k \in 1..Len(lit) : s[p + k - 1] = lit[k]

\* first position of the run of digits of s that ends at position q
DigitsStart(s, q) ==
  CHOOSE p \in 1..q :
    /\ \A k \in p..q : IsDigit(s[k])
    /\ p = 1 \/ ~IsDigit(s[p - 1])

\* a run of digits ends at position q
DigitAt(s, q) == q >= 1 /\ q <= Len(s) /\ IsDigit(s[q])

Least(S) == CHOOSE i \in S : \A k \in S : i <= k

\* re.search(r"(\d+)%", s): group 1 of the leftmost match, None where there
\* is no match
pct_match(s) ==
  LET ends == { q \in 1..Len(s) : s[q] = "%" /\ DigitAt(s, q - 1) }
  IN  IF ends = {} THEN << >>
      ELSE LET q == Least(ends)
           IN  SubSeq(s, DigitsStart(s, q - 1), q - 1)

Remaining == <<" ", "r", "e", "m", "a", "i", "n", "i", "n", "g">>

\* re.search(r"(\d+:\d+) remaining", s): group 1 of the leftmost match
time_match(s) ==
  LET ends == { r \in 1..Len(s) :
                  /\ ExactAt(Remaining, s, r)
                  /\ DigitAt(s, r - 1)
                  /\ DigitsStart(s, r - 1) >= 3
                  /\ s[DigitsStart(s, r - 1) - 1] = ":"
                  /\ DigitAt(s, DigitsStart(s, r - 1) - 2) }
  IN  IF ends = {} THEN << >>
      ELSE LET r == Least(ends)
               colon == DigitsStart(s, r - 1) - 1
           IN  SubSeq(s, DigitsStart(s, colon - 1), r - 1)

\* h, m = map(int, group.split(":")); h * 60 + m
MinutesOf(hm) ==
  LET colon == CHOOSE i \in 1..Len(hm) : hm[i] = ":"
  IN  int(SubSeq(hm, 1, colon - 1)).val * 60 + int(SubSeq(hm, colon + 1, Len(hm))).val

Discharging == <<"d", "i", "s", "c", "h", "a", "r", "g", "i", "n", "g">>
Charging == <<"c", "h", "a", "r", "g", "i", "n", "g">>
Charged == <<"c", "h", "a", "r", "g", "e", "d">>
ACPower == <<"A", "C", " ", "P", "o", "w", "e", "r">>

\* get_battery_info on what pmset printed, at time now.  The key
\* time_remaining_minutes is absent (<< >>) where no time was found.
get_battery_info(output, now) ==
  LET pct == pct_match(output)
      tm == time_match(output)
  IN  [timestamp |-> now,
       percentage |-> IF pct = << >> THEN << >> ELSE << int(pct).val >>,
       status |-> IF InString(Discharging, lower(output)) THEN "juice leaving"
                  ELSE IF InString(Charging, lower(output)) THEN "eating lightning"
                  ELSE IF InString(Charged, lower(output)) THEN "belly full"
                  ELSE IF InString(ACPower, output) THEN "plugged to wall-vine"
                  ELSE None,
       time_remaining |-> tm,
       time_remaining_minutes |-> IF tm = << >> THEN << >> ELSE << MinutesOf(tm) >>,
       raw |-> strip(output)]

\* get_top_cpu_processes(n=5)
TopCount == 5

\* the loop of get_top_cpu_processes over the lines it is given
RECURSIVE TopRows(_)
TopRows(lines) ==
  IF lines = << >> THEN << >>
  ELSE LET parts == split(Head(lines), 3)
       IN  (IF Len(parts) >= 4
            THEN << [pid |-> int(parts[1]).val,
                     cpu |-> float(parts[2]).val,
                     mem_mb |-> float(parts[3]).val,
                     name |-> parts[4]] >>
            ELSE << >>) \o TopRows(Tail(lines))

\* get_top_cpu_processes on the lines of ps -r: lines[1:n+1]
get_top_cpu_processes(lines, n) ==
  TopRows(SubSeq(lines, 2, Min(Len(lines), n + 1)))

\* the dict save_baseline builds
Snapshot(battery, top_processes, processes_killed, mem_freed_mb) ==
  [battery |-> battery,
   top_processes |-> top_processes,
   processes_killed |-> processes_killed,
   mem_freed_mb |-> mem_freed_mb]

\* write_text that leaves a file that exists as it is
write_text_KeepExisting(file, data) == IF file = << >> THEN << data >> ELSE file

\* BASELINE_FILE.write_text(json.dumps(data)): the file, a sequence of the
\* snapshots it holds (none while it does not exist), after the call
write_text(file, data) == << data >>

\* BASELINE_FILE.exists()
exists(file) == file # << >>

\* json.loads(BASELINE_FILE.read_text())
read_baseline(file) == file[1]

\* int((percentage / 100) * width) and the fill character of get_juice_bar
get_juice_bar(percentage, width) ==
  [fill |-> (percentage * width) \div 100,
   fill_char |-> IF percentage > 60 THEN "full" ELSE IF percentage > 30 THEN "half" ELSE "low"]

\* an uncaught exception, or None
TypeError == "TypeError"

\* what a function printed before it returned or raised
Ran(out, exc) == [printed |-> out, raised |-> exc]

\* get_battery_art(percentage, improved): f"{percentage:>3}%" raises
\* TypeError where percentage is None
get_battery_art(percentage, improved) ==
  IF percentage = << >> THEN Ran(<< >>, TypeError)
  ELSE Ran(<< [part |-> "battery_art",
               percentage |-> percentage[1],
               improved |-> improved,
               bar |-> get_juice_bar(percentage[1], 10)] >>, None)

\* the tiers with a difference of 0 counted as a small gain
get_comparison_art_ZeroIsBetter(before_min, after_min) ==
  LET diff == after_min - before_min
  IN  [part |-> "comparison",
       tier |-> IF diff > 30 THEN "mammoth victory"
                ELSE IF diff > 10 THEN "good hunt"
                ELSE IF diff >= 0 THEN "little bit better"
                ELSE IF diff = 0 THEN "same same"
                ELSE "number go down",
       before |-> before_min,
       after |-> after_min,
       diff |-> diff]

\* the tiers with the two upper boundaries on the wrong side
get_comparison_art_Inclusive(before_min, after_min) ==
  LET diff == after_min - before_min
  IN  [part |-> "comparison",
       tier |-> IF diff >= 30 THEN "mammoth victory"
                ELSE IF diff >= 10 THEN "good hunt"
                ELSE IF diff > 0 THEN "little bit better"
                ELSE IF diff = 0 THEN "same same"
                ELSE "number go down",
       before |-> before_min,
       after |-> after_min,
       diff |-> diff]

\* get_comparison_art(before_min, after_min)
get_comparison_art(before_min, after_min) ==
  LET diff == after_min - before_min
  IN  [part |-> "comparison",
       tier |-> IF diff > 30 THEN "mammoth victory"
                ELSE IF diff > 10 THEN "good hunt"
                ELSE IF diff > 0 THEN "little bit better"
                ELSE IF diff = 0 THEN "same same"
                ELSE "number go down",
       before |-> before_min,
       after |-> after_min,
       diff |-> diff]

\* get_process_kill_art(killed_count, mem_freed_gb), called with killed_count > 0
get_process_kill_art(killed_count, mem_freed_mb) ==
  [part |-> "kill_art",
   skulls |-> Min(killed_count, 5),
   killed |-> killed_count,
   mem_freed_mb |-> IF mem_freed_mb > 0 THEN mem_freed_mb ELSE 0]

\* the lines save_baseline prints after writing the file
save_baseline_print(data) ==
  IF data.battery.percentage = << >> THEN Ran(<< >>, TypeError)
  ELSE Ran(<< [part |-> "remembered",
               percentage |-> data.battery.percentage[1],
               time_remaining |-> data.battery.time_remaining] >>, None)

\* before.get('time_remaining_minutes', 0)
MinutesOrZero(info) ==
  IF info.time_remaining_minutes = << >> THEN 0 ELSE info.time_remaining_minutes[1]

TableRows == 3
NameWidth == 12

RECURSIVE SumCpu(_)
SumCpu(procs) == IF procs = << >> THEN 0 ELSE Head(procs).cpu + SumCpu(Tail(procs))

\* f"{x:.0f}" of a number of tenths: to the nearest integer, ties to even
RoundTenths(x) ==
  LET q == x \div 10
      r == x % 10
  IN  IF r > 5 \/ (r = 5 /\ q % 2 = 1) THEN q + 1 ELSE q

Max(a, b) == IF a >= b THEN a ELSE b

\* the table FIRE BEFORE / FIRE AFTER and the line of the reduction
FireTable(before_procs, after_procs) ==
  LET Missing == [cpu |-> 0, name |-> << "-" >>]
      Cell(procs, i) == IF i <= Len(procs) THEN procs[i] ELSE Missing
      before_total == SumCpu(before_procs)
      after_total == SumCpu(after_procs)
      reduction == before_total - after_total
  IN  << [part |-> "table",
          rows |-> [i \in 1..Max(Len(before_procs), Len(after_procs)) |->
                      [b_cpu |-> Cell(before_procs, i).cpu,
                       b_name |-> Prefix(Cell(before_procs, i).name, NameWidth),
                       a_cpu |-> Cell(after_procs, i).cpu,
                       a_name |-> Prefix(Cell(after_procs, i).name, NameWidth)]]] >>
      \o (IF reduction > 0
          THEN << [part |-> "reduction",
                   before_total |-> RoundTenths(before_total),
                   after_total |-> RoundTenths(after_total),
                   reduction |-> RoundTenths(reduction)] >>
          ELSE << >>)

\* show_impact_report with improved = processes_killed > 0, baseline or not
show_impact_report_ImprovedByKills(file, current, current_procs, processes_killed, mem_freed_mb) ==
  LET has_baseline == exists(file)
      before == read_baseline(file).battery
      before_min == MinutesOrZero(before)
      after_min == MinutesOrZero(current)
      improved == processes_killed > 0
      art == get_battery_art(current.percentage, improved)
      upToArt ==
        << [part |-> "header"] >>
        \o (IF processes_killed > 0
            THEN << get_process_kill_art(processes_killed, mem_freed_mb) >>
            ELSE << >>)
        \o (IF has_baseline
            THEN (IF before_min # 0 /\ after_min # 0
                  THEN << get_comparison_art(before_min, after_min) >>
                  ELSE << >>)
                 \o FireTable(Prefix(read_baseline(file).top_processes, TableRows),
                              Prefix(current_procs, TableRows))
            ELSE << >>)
  IN  IF art.raised # None THEN Ran(upToArt, art.raised)
      ELSE Ran(upToArt \o art.printed
               \o (IF current.time_remaining # << >>
                   THEN << [part |-> "time_remaining", text |-> current.time_remaining] >>
                   ELSE << >>)
               \o << [part |-> "footer", celebration |-> processes_killed > 0] >>,
               None)

\* show_impact_report(processes_killed, mem_freed_mb) with the file as it is,
\* the battery reading current and the rows current_procs
show_impact_report(file, current, current_procs, processes_killed, mem_freed_mb) ==
  LET has_baseline == exists(file)
      before == read_baseline(file).battery
      before_min == MinutesOrZero(before)
      after_min == MinutesOrZero(current)
      improved == has_baseline /\ processes_killed > 0
      art == get_battery_art(current.percentage, improved)
      upToArt ==
        << [part |-> "header"] >>
        \o (IF processes_killed > 0
            THEN << get_process_kill_art(processes_killed, mem_freed_mb) >>
            ELSE << >>)
        \o (IF has_baseline
            THEN (IF before_min # 0 /\ after_min # 0
                  THEN << get_comparison_art(before_min, after_min) >>
                  ELSE << >>)
                 \o FireTable(Prefix(read_baseline(file).top_processes, TableRows),
                              Prefix(current_procs, TableRows))
            ELSE << >>)
  IN  IF art.raised # None THEN Ran(upToArt, art.raised)
      ELSE Ran(upToArt \o art.printed
               \o (IF current.time_remaining # << >>
                   THEN << [part |-> "time_remaining", text |-> current.time_remaining] >>
                   ELSE << >>)
               \o << [part |-> "footer", celebration |-> processes_killed > 0] >>,
               None)

\* compare_to_baseline() with a baseline file
compare_to_baseline(file, current, current_procs) ==
  show_impact_report(file, current, current_procs,
                     read_baseline(file).processes_killed,
                     read_baseline(file).mem_freed_mb)

\* compare_to_baseline without its test of exists(): read_text raises
NoBaselineGuidance_Unchecked == Ran(<< >>, "FileNotFoundError")

\* what compare_to_baseline prints without a baseline file
NoBaselineGuidance == Ran(<< [part |-> "no_baseline"] >>, None)

\* show_status()
show_status(info) ==
  LET art == get_battery_art(info.percentage, FALSE)
  IN  IF art.raised # None THEN Ran(<< [part |-> "status_header"] >>, art.raised)
      ELSE Ran(<< [part |-> "status_header"] >> \o art.printed
               \o << [part |-> "what_doing", status |-> info.status] >>
               \o (IF info.time_remaining # << >>
                   THEN << [part |-> "time_remaining", text |-> info.time_remaining] >>
                   ELSE << >>),
               None)

\* main: the word is not one of before, after, report, status
UnknownWord == Ran(<< [part |-> "not_caveman_word"] >>, None)

----------------------------------------------------------------------------
(* Inputs of the classifier                                                *)

MaxChunks == 3
MaxCalls == 2

SampleNames ==
  { << >>,
    <<"l", "a", "u", "n", "c", "h", "d">>,
    <<"L", "a", "u", "n", "c", "h", "D">>,
    <<"l", "a", "u", "n", "c", "h", "d", "\n">>,
    <<"l", "a", "u", "n", "c", "h", "d", "x">>,
    <<"x", "l", "a", "u", "n", "c", "h", "d">>,
    <<"m", "d", "w", "o", "r", "k", "e", "r", "_", "c", "l", "a", "u", "d", "e">>,
    <<"w", "i", "n", "d", "o", "w", "s", "e", "r", "v", "e", "r">>,
    <<"n", "o", "d", "e">>,
    <<"z", "s", "h">> }

CommandChunks ==
  { <<"n", "o", "d", "e", " ">>,
    <<"n", "e", "x", "t">>,
    <<"-", "s", "e", "r", "v", "e", "r">>,
    <<" ", "d", "e", "v">>,
    <<"C", "l", "a", "u", "d", "e">>,
    <<"\n">> }

RECURSIVE Concats(_)
Concats(n) ==
  IF n = 0 THEN { << >> }
  ELSE LET shorter == Concats(n - 1)
       IN  shorter \cup { s \o c : s \in shorter, c \in CommandChunks }

SampleCommands == Concats(MaxChunks)

----------------------------------------------------------------------------
(* The parts of the state a specification does not use stay as they are    *)

SamplePids == {1, 4242}
SampleProcNames == {"node", "launchd"}

CatIdle == cName = << >> /\ cCommand = << >> /\ cResults = << >>

TermIdle ==
  /\ procName = "node" /\ procAlive = FALSE /\ procPerm = FALSE /\ psWorks = FALSE
  /\ pid = 1 /\ force = FALSE /\ pc = "idle" /\ termName = None
  /\ sent = << >> /\ errnos = << >> /\ polls = << >> /\ sleeps = 0
  /\ rechecks = << >> /\ outcome = [success |-> FALSE, message |-> NoMessage]
  /\ exit_code = << >>

ScanIdle ==
  /\ ps_stdout = << << >> >> /\ cpu_threshold = 0 /\ mem_threshold = 0
  /\ as_json = FALSE /\ scanPc = "idle" /\ processes = << >> /\ printed = NothingPrinted

\* no before has run
NoBefore == [ran |-> FALSE, pmset |-> << >>, top |-> << >>, at |-> 0, killed |-> 0, mem |-> 0]

PowerIdle ==
  /\ baseline_file = << >> /\ pmset_stdout = << >> /\ top_stdout = << >>
  /\ clock = 0 /\ argv = [cmd |-> "", killed |-> 0, mem |-> 0]
  /\ stdout = << >> /\ exception = None /\ last_before = NoBefore

\* get_comparison_art has not been called
NoComparison == [part |-> "none"]

CmpIdle ==
  /\ cmp_before = 0 /\ cmp_after = 0 /\ cmp_art = NoComparison

RaceIdle ==
  /\ race_file = << >>
  /\ a_pc = "idle" /\ a_baseline = << >> /\ a_has_baseline = FALSE /\ a_current = << >>
  /\ a_report_baseline = << >> /\ a_ran = Ran(<< >>, None)
  /\ b_pc = "idle" /\ b_data = << >> /\ b_ran = Ran(<< >>, None)

UiIdle ==
  /\ components_json = << >>
  /\ project_root = [paths |-> {}, tool_ui_imports |-> {}, assistant_imports |-> {},
                     package_json |-> << >>]
  /\ args = [fix |-> FALSE, doctor |-> FALSE]
  /\ ui_stdout = << >> /\ ui_exception = None /\ ui_exit_code = 0 /\ runs = 0

----------------------------------------------------------------------------
(* Inputs of the scan command, and the scan command run once              *)

PsHeader ==
  <<"P", "I", "D", " ", " ", "%", "C", "P", "U", " ", " ", " ", " ", "R", "S", "S", " ", "C", "O", "M", "M", " ", "A", "R", "G", "S">>

\* n characters of padding
Pad(n) == [i \in 1..n |-> "x"]

SampleRows ==
  {
    \* cpu=50, mem=10 MB, a dev server
    <<" ", " ", "1", "0", "1", " ", " ", "5", "0", ".", "0", " ", "1", "0", "2", "4", "0", " ", "n", "o", "d", "e", " ", "n", "o", "d", "e", " ", "/", "u", "s", "r", "/", "b", "i", "n", "/", "v", "i", "t", "e", " ", "d", "e", "v">>,
    \* cpu=5, mem=1000 MB, unclassified
    <<" ", " ", "1", "0", "2", " ", " ", " ", "5", ".", "0", " ", "1", "0", "2", "4", "0", "0", "0", " ", "z", "s", "h", " ", "-", "z", "s", "h">>,
    \* a system daemon whose arguments look like a dev tool
    <<" ", " ", " ", " ", "1", " ", " ", "1", "2", ".", "5", " ", "2", "0", "4", "8", " ", "l", "a", "u", "n", "c", "h", "d", " ", "/", "s", "b", "i", "n", "/", "l", "a", "u", "n", "c", "h", "d", " ", "c", "l", "a", "u", "d", "e">>,
    \* the scan itself
    <<" ", " ", "1", "0", "4", " ", " ", "9", "9", ".", "0", " ", "6", "0", "0", "0", "0", "0", " ", "p", "y", "t", "h", "o", "n", "3", " ", "p", "y", "t", "h", "o", "n", "3", " ", "h", "u", "n", "t", "_", "p", "r", "o", "c", "e", "s", "s", "e", "s", ".", "p", "y", " ", "-", "-", "j", "s", "o", "n">>,
    \* exactly on both default thresholds; the only pattern match lies beyond character 100
    <<" ", " ", "1", "0", "5", " ", " ", "1", "0", ".", "0", " ", "5", "1", "2", "0", "0", "0", " ", "t", "o", "o", "l", " ">> \o Pad(CommandDisplayLen)
      \o <<" ">> \o <<"c", "l", "a", "u", "d", "e">>,
    \* the scan itself, its name beyond character 100 of the command
    <<" ", " ", "1", "0", "9", " ", " ", "8", "0", ".", "0", " ", "2", "0", "4", "8", " ", "n", "o", "d", "e", " ", "n", "o", "d", "e", " ">> \o Pad(CommandDisplayLen)
      \o <<" ">> \o SelfMarker,
    \* below both default thresholds
    <<" ", " ", "1", "0", "6", " ", " ", " ", "1", ".", "0", " ", "1", "0", "0", " ", "i", "d", "l", "e", " ", "i", "d", "l", "e">>,
    \* too few columns
    <<" ", " ", "1", "0", "7", " ", " ", " ", "1", ".", "0">>,
    \* unparseable pid
    <<" ", " ", "x", "0", "8", " ", " ", "2", "0", ".", "0", " ", "2", "0", "4", "8", " ", "b", "a", "d", " ", "b", "a", "d", " ", "r", "o", "w">>
  }

MaxRows == 2

RECURSIVE RowLists(_)
RowLists(n) ==
  IF n = 0 THEN { << >> }
  ELSE LET shorter == RowLists(n - 1)
       IN  shorter \cup { l \o << r >> : l \in shorter, r \in SampleRows }

\* what ps printed: nothing at all, or the header and up to MaxRows rows
SamplePsOutputs == { << << >> >> } \cup { << PsHeader >> \o l : l \in RowLists(MaxRows) }

\* thresholds in tenths: 0 and the defaults 10.0 and 500.0
SampleCpuThresholds == {0, 100}
SampleMemThresholds == {0, 5000}

InitScan ==
  /\ UiIdle
  /\ RaceIdle
  /\ CmpIdle
  /\ CatIdle
  /\ TermIdle
  /\ PowerIdle
  /\ ps_stdout \in SamplePsOutputs
  /\ cpu_threshold \in SampleCpuThresholds
  /\ mem_threshold \in SampleMemThresholds
  /\ as_json \in BOOLEAN
  /\ scanPc = "start"
  /\ processes = << >>
  /\ printed = NothingPrinted

NextScan == CallGetProcesses \/ PrintOutput

SpecScan == InitScan /\ [][NextScan]_vars

----------------------------------------------------------------------------
(* The classifier called repeatedly on one (name, command) pair            *)

InitCategorize ==
  /\ UiIdle
  /\ RaceIdle
  /\ CmpIdle
  /\ ScanIdle
  /\ TermIdle
  /\ PowerIdle
  /\ cName \in SampleNames
  /\ cCommand \in SampleCommands
  /\ cResults = << >>

CallCategorize ==
  /\ Len(cResults) < MaxCalls
  /\ cResults' = Append(cResults, categorize_process(cName, cCommand))
  /\ UNCHANGED << cName, cCommand >>
  /\ UNCHANGED << scanVars, osVars, termVars, powerVars, cmpVars, raceVars, uiVars >>

NextCategorize == CallCategorize

SpecCategorize == InitCategorize /\ [][NextCategorize]_vars
----------------------------------------------------------------------------
(* One invocation of terminate, with the target free to exit at any time   *)

InitTerminate ==
  /\ UiIdle
  /\ RaceIdle
  /\ CmpIdle
  /\ CatIdle
  /\ ScanIdle
  /\ PowerIdle
  /\ procName \in SampleProcNames
  /\ procAlive \in BOOLEAN
  /\ procPerm \in BOOLEAN
  /\ psWorks \in BOOLEAN
  /\ pid \in SamplePids
  /\ force \in BOOLEAN
  /\ pc = "start"
  /\ termName = None
  /\ sent = << >> /\ errnos = << >> /\ polls = << >> /\ sleeps = 0
  /\ rechecks = << >>
  /\ outcome = [success |-> FALSE, message |-> NoMessage]
  /\ exit_code = << >>

NextTerminate == terminate \/ ProcessExits \/ Exit

SpecTerminate == InitTerminate /\ [][NextTerminate]_vars

\* the interpreter keeps running the program: a step of terminate or of main
\* that can be taken is taken
SpecTerminateFair == SpecTerminate /\ WF_vars(terminate \/ Exit)

----------------------------------------------------------------------------
(* Inputs of the baseline commands, and the commands run one after another *)

\* number of commands run
MaxCommands == 3

\* what pmset -g batt prints
SamplePmset ==
  {
    \* on battery, 3 h 45 min left
    <<"N", "o", "w", " ", "d", "r", "a", "w", "i", "n", "g", " ", "f", "r", "o", "m", " ", "'", "B", "a", "t", "t", "e", "r", "y", " ", "P", "o", "w", "e", "r", "'", "\n", " ", "-", "I", "n", "t", "e", "r", "n", "a", "l", "B", "a", "t", "t", "e", "r", "y", "-", "0", " ", "(", "i", "d", "=", "1", ")", "\t", "8", "5", "%", ";", " ", "d", "i", "s", "c", "h", "a", "r", "g", "i", "n", "g", ";", " ", "3", ":", "4", "5", " ", "r", "e", "m", "a", "i", "n", "i", "n", "g", " ", "p", "r", "e", "s", "e", "n", "t", ":", " ", "t", "r", "u", "e", "\n">>,
    \* on battery, later: 4 h 30 min left
    <<"N", "o", "w", " ", "d", "r", "a", "w", "i", "n", "g", " ", "f", "r", "o", "m", " ", "'", "B", "a", "t", "t", "e", "r", "y", " ", "P", "o", "w", "e", "r", "'", "\n", " ", "-", "I", "n", "t", "e", "r", "n", "a", "l", "B", "a", "t", "t", "e", "r", "y", "-", "0", " ", "(", "i", "d", "=", "1", ")", "\t", "8", "0", "%", ";", " ", "d", "i", "s", "c", "h", "a", "r", "g", "i", "n", "g", ";", " ", "4", ":", "3", "0", " ", "r", "e", "m", "a", "i", "n", "i", "n", "g", " ", "p", "r", "e", "s", "e", "n", "t", ":", " ", "t", "r", "u", "e", "\n">>,
    \* full on the charger: 0:00 remaining
    <<"N", "o", "w", " ", "d", "r", "a", "w", "i", "n", "g", " ", "f", "r", "o", "m", " ", "'", "A", "C", " ", "P", "o", "w", "e", "r", "'", "\n", " ", "-", "I", "n", "t", "e", "r", "n", "a", "l", "B", "a", "t", "t", "e", "r", "y", "-", "0", " ", "(", "i", "d", "=", "1", ")", "\t", "1", "0", "0", "%", ";", " ", "c", "h", "a", "r", "g", "e", "d", ";", " ", "0", ":", "0", "0", " ", "r", "e", "m", "a", "i", "n", "i", "n", "g", " ", "p", "r", "e", "s", "e", "n", "t", ":", " ", "t", "r", "u", "e", "\n">>,
    \* charging, no estimate yet
    <<"N", "o", "w", " ", "d", "r", "a", "w", "i", "n", "g", " ", "f", "r", "o", "m", " ", "'", "A", "C", " ", "P", "o", "w", "e", "r", "'", "\n", " ", "-", "I", "n", "t", "e", "r", "n", "a", "l", "B", "a", "t", "t", "e", "r", "y", "-", "0", " ", "(", "i", "d", "=", "1", ")", "\t", "4", "0", "%", ";", " ", "c", "h", "a", "r", "g", "i", "n", "g", ";", " ", "(", "n", "o", " ", "e", "s", "t", "i", "m", "a", "t", "e", ")", " ", "p", "r", "e", "s", "e", "n", "t", ":", " ", "t", "r", "u", "e", "\n">>,
    \* a machine without a battery
    <<"N", "o", "w", " ", "d", "r", "a", "w", "i", "n", "g", " ", "f", "r", "o", "m", " ", "'", "A", "C", " ", "P", "o", "w", "e", "r", "'", "\n">>
  }

\* result.stdout.strip().split("\n") of ps -eo pid,pcpu,rss,comm -r
SampleTops ==
  {
    \* six rows, busiest first
    <<
      <<"P", "I", "D", " ", " ", "%", "C", "P", "U", " ", " ", " ", " ", "R", "S", "S", " ", "C", "O", "M", "M">>,
      <<" ", " ", "1", "0", "1", " ", " ", "5", "0", ".", "0", " ", "1", "0", "2", "4", "0", " ", "n", "o", "d", "e">>,
      <<" ", " ", "1", "0", "2", " ", " ", "1", "2", ".", "5", " ", "1", "0", "2", "4", "0", "0", "0", " ", "/", "A", "p", "p", "l", "i", "c", "a", "t", "i", "o", "n", "s", "/", "G", "o", "o", "g", "l", "e", " ", "C", "h", "r", "o", "m", "e", ".", "a", "p", "p", "/", "C", "o", "n", "t", "e", "n", "t", "s", "/", "M", "a", "c", "O", "S", "/", "G", "o", "o", "g", "l", "e", " ", "C", "h", "r", "o", "m", "e">>,
      <<" ", " ", "1", "0", "3", " ", " ", " ", "5", ".", "0", " ", "2", "0", "4", "8", " ", "z", "s", "h">>,
      <<" ", " ", "1", "0", "4", " ", " ", " ", "1", ".", "0", " ", "5", "1", "2", " ", "-">>,
      <<" ", " ", "1", "0", "5", " ", " ", " ", "0", ".", "5", " ", "5", "1", "2", " ", "l", "a", "u", "n", "c", "h", "d">>,
      <<" ", " ", "1", "0", "6", " ", " ", " ", "0", ".", "0", " ", "1", "0", "0", " ", "i", "d", "l", "e">>
    >>,
    \* after a hunt: two quiet rows and a row without a name
    <<
      <<"P", "I", "D", " ", " ", "%", "C", "P", "U", " ", " ", " ", " ", "R", "S", "S", " ", "C", "O", "M", "M">>,
      <<" ", " ", "1", "0", "3", " ", " ", " ", "5", ".", "0", " ", "2", "0", "4", "8", " ", "z", "s", "h">>,
      <<" ", " ", "1", "0", "7", " ", " ", " ", "0", ".", "0", " ", "0">>,
      <<" ", " ", "1", "0", "5", " ", " ", " ", "0", ".", "5", " ", "5", "1", "2", " ", "l", "a", "u", "n", "c", "h", "d">>
    >>
  }

\* get_battery_info and get_top_cpu_processes on each sample, computed once
BatteryOf == [output \in SamplePmset |-> get_battery_info(output, 0)]
TopOf == [lines \in SampleTops |-> get_top_cpu_processes(lines, TopCount)]

\* get_battery_info() called at time now while pmset prints output
BatteryAt(output, now) == [BatteryOf[output] EXCEPT !.timestamp = now]

\* sys.argv[2] and sys.argv[3]: creatures bonked and MB freed (in 1/10 MB)
SampleHunts == { [killed |-> 0, mem |-> 0], [killed |-> 3, mem |-> 20480] }

\* a baseline left in /tmp by an earlier session, at time 0
StaleBaseline ==
  Snapshot(get_battery_info(<<"N", "o", "w", " ", "d", "r", "a", "w", "i", "n", "g", " ", "f", "r", "o", "m", " ", "'", "B", "a", "t", "t", "e", "r", "y", " ", "P", "o", "w", "e", "r", "'", "\n", " ", "-", "I", "n", "t", "e", "r", "n", "a", "l", "B", "a", "t", "t", "e", "r", "y", "-", "0", " ", "(", "i", "d", "=", "1", ")", "\t", "8", "5", "%", ";", " ", "d", "i", "s", "c", "h", "a", "r", "g", "i", "n", "g", ";", " ", "3", ":", "4", "5", " ", "r", "e", "m", "a", "i", "n", "i", "n", "g", " ", "p", "r", "e", "s", "e", "n", "t", ":", " ", "t", "r", "u", "e", "\n">>, 0),
           << [pid |-> 77, cpu |-> 990, mem_mb |-> 40960, name |-> <<"y", "e", "s">>] >>,
           1, 40)

InitBaseline ==
  /\ UiIdle
  /\ RaceIdle
  /\ CmpIdle
  /\ CatIdle
  /\ ScanIdle
  /\ TermIdle
  /\ baseline_file \in { << >>, << StaleBaseline >> }
  /\ pmset_stdout = << >>
  /\ top_stdout = << >>
  /\ clock = 1
  /\ argv = [cmd |-> "", killed |-> 0, mem |-> 0]
  /\ stdout = << >>
  /\ exception = None
  /\ last_before = NoBefore
\* main, cmd == "before": save_baseline(killed, mem)
Before ==
  /\ clock <= MaxCommands
  /\ \E output \in SamplePmset, lines \in SampleTops, hunt \in SampleHunts :
       LET data == Snapshot(BatteryAt(output, clock),
                            TopOf[lines],
                            hunt.killed, hunt.mem)
           ran == save_baseline_print(data)
       IN  /\ pmset_stdout' = output
           /\ top_stdout' = lines
           /\ argv' = [cmd |-> "before", killed |-> hunt.killed, mem |-> hunt.mem]
           /\ baseline_file' = write_text(baseline_file, data)
           /\ stdout' = ran.printed
           /\ exception' = ran.raised
           /\ last_before' = [ran |-> TRUE, pmset |-> output, top |-> lines, at |-> clock,
                               killed |-> hunt.killed, mem |-> hunt.mem]
  /\ clock' = clock + 1
  /\ UNCHANGED << catVars, scanVars, osVars, termVars, cmpVars, raceVars, uiVars >>

\* After with the baseline removed once it has been compared
After_Consume ==
  /\ clock <= MaxCommands
  /\ IF ~exists(baseline_file)
     THEN /\ stdout' = NoBaselineGuidance.printed
          /\ exception' = NoBaselineGuidance.raised
          /\ UNCHANGED << pmset_stdout, top_stdout >>
     ELSE \E output \in SamplePmset, lines \in SampleTops :
            LET ran == compare_to_baseline(baseline_file,
                                           BatteryAt(output, clock),
                                           TopOf[lines])
            IN  /\ pmset_stdout' = output
                /\ top_stdout' = lines
                /\ stdout' = ran.printed
                /\ exception' = ran.raised
  /\ argv' = [cmd |-> "after", killed |-> 0, mem |-> 0]
  /\ clock' = clock + 1
  /\ baseline_file' = << >>
  /\ UNCHANGED last_before
  /\ UNCHANGED << catVars, scanVars, osVars, termVars, cmpVars, raceVars, uiVars >>

\* main, cmd == "after": compare_to_baseline()
After ==
  /\ clock <= MaxCommands
  /\ IF ~exists(baseline_file)
     THEN /\ stdout' = NoBaselineGuidance.printed
          /\ exception' = NoBaselineGuidance.raised
          /\ UNCHANGED << pmset_stdout, top_stdout >>
     ELSE \E output \in SamplePmset, lines \in SampleTops :
            LET ran == compare_to_baseline(baseline_file,
                                           BatteryAt(output, clock),
                                           TopOf[lines])
            IN  /\ pmset_stdout' = output
                /\ top_stdout' = lines
                /\ stdout' = ran.printed
                /\ exception' = ran.raised
  /\ argv' = [cmd |-> "after", killed |-> 0, mem |-> 0]
  /\ clock' = clock + 1
  /\ UNCHANGED baseline_file
  /\ UNCHANGED last_before
  /\ UNCHANGED << catVars, scanVars, osVars, termVars, cmpVars, raceVars, uiVars >>

\* main, cmd == "report": show_impact_report(killed, mem)
Report ==
  /\ clock <= MaxCommands
  /\ \E output \in SamplePmset, lines \in SampleTops, hunt \in SampleHunts :
       LET ran == show_impact_report(baseline_file,
                                     BatteryAt(output, clock),
                                     TopOf[lines],
                                     hunt.killed, hunt.mem)
       IN  /\ pmset_stdout' = output
           /\ top_stdout' = lines
           /\ argv' = [cmd |-> "report", killed |-> hunt.killed, mem |-> hunt.mem]
           /\ stdout' = ran.printed
           /\ exception' = ran.raised
  /\ clock' = clock + 1
  /\ UNCHANGED << baseline_file, last_before >>
  /\ UNCHANGED << catVars, scanVars, osVars, termVars, cmpVars, raceVars, uiVars >>

\* main without a word, or cmd == "status": show_status()
Status ==
  /\ clock <= MaxCommands
  /\ \E output \in SamplePmset, word \in {"", "status"} :
       LET ran == show_status(BatteryAt(output, clock))
       IN  /\ pmset_stdout' = output
           /\ argv' = [cmd |-> word, killed |-> 0, mem |-> 0]
           /\ stdout' = ran.printed
           /\ exception' = ran.raised
  /\ clock' = clock + 1
  /\ UNCHANGED << baseline_file, top_stdout, last_before >>
  /\ UNCHANGED << catVars, scanVars, osVars, termVars, cmpVars, raceVars, uiVars >>

\* main, any other word
OtherWord ==
  /\ clock <= MaxCommands
  /\ argv' = [cmd |-> "ugh", killed |-> 0, mem |-> 0]
  /\ stdout' = UnknownWord.printed
  /\ exception' = UnknownWord.raised
  /\ clock' = clock + 1
  /\ UNCHANGED << baseline_file, pmset_stdout, top_stdout, last_before >>
  /\ UNCHANGED << catVars, scanVars, osVars, termVars, cmpVars, raceVars, uiVars >>

NextBaseline == Before \/ After \/ Report \/ Status \/ OtherWord

SpecBaseline == InitBaseline /\ [][NextBaseline]_vars

-----------------------------------------------------------------------------
(* get_comparison_art applied to the minutes show_impact_report can pass:  *)
(* both are non-zero there, and any number of minutes up to MaxMinutes      *)

MaxMinutes == 40

InitCompare ==
  /\ UiIdle
  /\ RaceIdle
  /\ CatIdle
  /\ ScanIdle
  /\ TermIdle
  /\ PowerIdle
  /\ cmp_before \in 1..MaxMinutes
  /\ cmp_after \in 1..MaxMinutes
  /\ cmp_art = NoComparison

\* print(get_comparison_art(before_min, after_min))
CallComparisonArt ==
  /\ cmp_art = NoComparison
  /\ cmp_art' = get_comparison_art(cmp_before, cmp_after)
  /\ UNCHANGED << cmp_before, cmp_after >>
  /\ UNCHANGED << catVars, scanVars, osVars, termVars, powerVars, raceVars, uiVars >>

NextCompare == CallComparisonArt

SpecCompare == InitCompare /\ [][NextCompare]_vars

-----------------------------------------------------------------------------
(* A before of one session and an after of another, each run once, their   *)
(* steps interleaved at the calls that touch BASELINE_FILE. Path.write_text *)
(* opens the file with mode 'w', which empties it, and writes the text when *)
(* it closes the file; nothing locks the file.                              *)

\* the file between the open and the write of write_text: it exists, its text is ""
Truncated == [text |-> ""]

JSONDecodeError == "JSONDecodeError"
FileNotFoundError == "FileNotFoundError"

\* json.loads(BASELINE_FILE.read_text()): the exception it raises, or None
LoadError(file) ==
  IF file = << >> THEN FileNotFoundError
  ELSE IF file = << Truncated >> THEN JSONDecodeError
  ELSE None

\* what show_impact_report has printed when it reaches `if has_baseline:`
ReportHead(processes_killed, mem_freed_mb) ==
  << [part |-> "header"] >>
  \o (IF processes_killed > 0
      THEN << get_process_kill_art(processes_killed, mem_freed_mb) >>
      ELSE << >>)

InitRace ==
  /\ UiIdle
  /\ CatIdle
  /\ ScanIdle
  /\ TermIdle
  /\ PowerIdle
  /\ CmpIdle
  /\ race_file \in { << >>, << StaleBaseline >> }
  /\ a_pc = "exists"
  /\ a_baseline = << >>
  /\ a_has_baseline = FALSE
  /\ a_current = << >>
  /\ a_report_baseline = << >>
  /\ a_ran = Ran(<< >>, None)
  /\ b_pc = "gather"
  /\ b_data = << >>
  /\ b_ran = Ran(<< >>, None)

\* compare_to_baseline: if not BASELINE_FILE.exists(): print the guidance and return
A_Exists ==
  /\ a_pc = "exists"
  /\ IF ~exists(race_file)
     THEN a_ran' = NoBaselineGuidance /\ a_pc' = "done"
     ELSE a_pc' = "load" /\ UNCHANGED a_ran
  /\ UNCHANGED << race_file, a_baseline, a_has_baseline, a_current, a_report_baseline,
                  b_pc, b_data, b_ran >>
  /\ UNCHANGED << catVars, scanVars, osVars, termVars, powerVars, cmpVars, uiVars >>

\* compare_to_baseline: baseline = json.loads(BASELINE_FILE.read_text())
A_Load ==
  /\ a_pc = "load"
  /\ a_baseline' = race_file
  /\ IF LoadError(race_file) # None
     THEN a_ran' = Ran(<< >>, LoadError(race_file)) /\ a_pc' = "done"
     ELSE a_pc' = "gather" /\ UNCHANGED a_ran
  /\ UNCHANGED << race_file, a_has_baseline, a_current, a_report_baseline,
                  b_pc, b_data, b_ran >>
  /\ UNCHANGED << catVars, scanVars, osVars, termVars, powerVars, cmpVars, uiVars >>

\* show_impact_report: has_baseline = BASELINE_FILE.exists(); current = ...; current_procs = ...
A_Gather ==
  /\ a_pc = "gather"
  /\ a_has_baseline' = exists(race_file)
  /\ \E output \in SamplePmset, lines \in SampleTops :
       a_current' = << [battery |-> BatteryAt(output, 2), procs |-> TopOf[lines]] >>
  /\ a_pc' = "report"
  /\ UNCHANGED << race_file, a_baseline, a_report_baseline, a_ran, b_pc, b_data, b_ran >>
  /\ UNCHANGED << catVars, scanVars, osVars, termVars, powerVars, cmpVars, uiVars >>

\* show_impact_report from its first print: the second read of the file where
\* has_baseline, and the rest of the report
A_Report ==
  /\ a_pc = "report"
  /\ LET processes_killed == read_baseline(a_baseline).processes_killed
         mem_freed_mb == read_baseline(a_baseline).mem_freed_mb
     IN  IF a_has_baseline
         THEN /\ a_report_baseline' = race_file
              /\ a_ran' = IF LoadError(race_file) # None
                          THEN Ran(ReportHead(processes_killed, mem_freed_mb),
                                   LoadError(race_file))
                          ELSE show_impact_report(race_file, a_current[1].battery,
                                                  a_current[1].procs,
                                                  processes_killed, mem_freed_mb)
         ELSE /\ a_ran' = show_impact_report(<< >>, a_current[1].battery,
                                             a_current[1].procs,
                                             processes_killed, mem_freed_mb)
              /\ UNCHANGED a_report_baseline
  /\ a_pc' = "done"
  /\ UNCHANGED << race_file, a_baseline, a_has_baseline, a_current, b_pc, b_data, b_ran >>
  /\ UNCHANGED << catVars, scanVars, osVars, termVars, powerVars, cmpVars, uiVars >>

\* save_baseline: data = {...}
B_Gather ==
  /\ b_pc = "gather"
  /\ \E output \in SamplePmset, lines \in SampleTops, hunt \in SampleHunts :
       b_data' = << Snapshot(BatteryAt(output, 1), TopOf[lines], hunt.killed, hunt.mem) >>
  /\ b_pc' = "open"
  /\ UNCHANGED << race_file, a_pc, a_baseline, a_has_baseline, a_current,
                  a_report_baseline, a_ran, b_ran >>
  /\ UNCHANGED << catVars, scanVars, osVars, termVars, powerVars, cmpVars, uiVars >>

\* B_Open that removes the file instead of emptying it
B_Open_Unlink ==
  /\ b_pc = "open"
  /\ race_file' = << >>
  /\ b_pc' = "write"
  /\ UNCHANGED << a_pc, a_baseline, a_has_baseline, a_current, a_report_baseline, a_ran,
                  b_data, b_ran >>
  /\ UNCHANGED << catVars, scanVars, osVars, termVars, powerVars, cmpVars, uiVars >>

\* BASELINE_FILE.write_text(...): open(mode='w') creates or empties the file
B_Open ==
  /\ b_pc = "open"
  /\ race_file' = << Truncated >>
  /\ b_pc' = "write"
  /\ UNCHANGED << a_pc, a_baseline, a_has_baseline, a_current, a_report_baseline, a_ran,
                  b_data, b_ran >>
  /\ UNCHANGED << catVars, scanVars, osVars, termVars, powerVars, cmpVars, uiVars >>

\* BASELINE_FILE.write_text(...): the text reaches the file; then the prints
B_Write ==
  /\ b_pc = "write"
  /\ race_file' = write_text(race_file, b_data[1])
  /\ b_ran' = save_baseline_print(b_data[1])
  /\ b_pc' = "done"
  /\ UNCHANGED << a_pc, a_baseline, a_has_baseline, a_current, a_report_baseline, a_ran,
                  b_data >>
  /\ UNCHANGED << catVars, scanVars, osVars, termVars, powerVars, cmpVars, uiVars >>

NextRace ==
  \/ A_Exists
  \/ A_Load
  \/ A_Gather
  \/ A_Report
  \/ B_Gather
  \/ B_Open
  \/ B_Write

SpecRace == InitRace /\ [][NextRace]_vars

-----------------------------------------------------------------------------
(* tool_ui_compat.py.  A JSON value is a record with its type; an object    *)
(* holds its members as a function from its keys, a string its characters. *)
(* A file is the sequence of what it holds, empty while it does not exist:  *)
(* the layout of its text and the value the text stands for.                *)

\* TOOL_UI_REGISTRY_URL
TOOL_UI_REGISTRY_URL == <<"h", "t", "t", "p", "s", ":", "/", "/", "t", "o", "o", "l", "-", "u", "i", ".", "c", "o", "m", "/", "r", "/", "{", "n", "a", "m", "e", "}", ".", "j", "s", "o", "n">>

\* values of json.loads: None, str, dict, list
Null == [type |-> "null"]
Str(s) == [type |-> "string", str |-> s]
Obj(members) == [type |-> "object", members |-> members]
Arr == [type |-> "array"]

\* isinstance(value, dict), isinstance(value, str)
isinstance_dict(value) == value.type = "object"
isinstance_str(value) == value.type = "string"

\* d.get(key): None for a key that is absent
get(d, key) == IF key \in DOMAIN d.members THEN d.members[key] ELSE Null

\* d[key] = value
set_item(d, key, value) ==
  Obj([k \in (DOMAIN d.members) \cup {key} |-> IF k = key THEN value ELSE d.members[k]])

\* json.loads(path.read_text()) of load_json: the exception it raises, or None
load_json_error(file) == IF file[1].layout = "invalid" THEN JSONDecodeError ELSE None

\* load_json(path) where the text is JSON
load_json(file) == file[1].data

\* path.write_text(json.dumps(components_data, indent=2) + "\n")
write_json(data) == << [layout |-> "dumps", data |-> data] >>

\* s.startswith(prefix)
startswith(s, prefix) == ExactAt(prefix, s, 1)

\* project_root / relative, both relative to the project root
join(dir, relative) == IF dir = << >> THEN relative ELSE dir \o <<"/">> \o relative

\* Path.exists() under the project root
path_exists(project, path) == path \in project.paths

\* the greatest element of a set of numbers
Greatest(S) == CHOOSE i \in S : \A k \in S : k <= i

\* PurePath.suffix: from the last dot of the last component, unless that dot
\* starts or ends the component
suffix_start(path) ==
  LET slashes == { i \in DOMAIN path : path[i] = "/" }
      name_start == IF slashes = {} THEN 1 ELSE Greatest(slashes) + 1
      dots == { i \in name_start..Len(path) : path[i] = "." }
  IN  IF dots = {} THEN Len(path) + 1
      ELSE IF Greatest(dots) > name_start /\ Greatest(dots) < Len(path) THEN Greatest(dots)
      ELSE Len(path) + 1

\* base.with_suffix(suffix)
with_suffix(path, suffix) == SubSeq(path, 1, suffix_start(path) - 1) \o suffix

ModuleSuffixes ==
  { <<".", "t", "s">>, <<".", "t", "s", "x">>, <<".", "j", "s">>, <<".", "j", "s", "x">>, <<".", "m", "j", "s">>, <<".", "c", "j", "s">> }

\* module_exists(base)
module_exists(project, base) ==
  \/ path_exists(project, base)
  \/ \E s \in ModuleSuffixes : path_exists(project, with_suffix(base, s))
  \/ \E s \in ModuleSuffixes : path_exists(project, join(base, <<"i", "n", "d", "e", "x">> \o s))

\* a line printed by fail, warn, info, ok or print
Line(level, text) == [level |-> level, text |-> text]

\* fail_count: fail() is the only writer of FAIL lines
fail_count(out) == Cardinality({ i \in DOMAIN out : out[i].level = "FAIL" })

AttributeError == "AttributeError"

\* run_checks: the checks of aliases; the alias of components is used by doctor
AliasChecks(components_data) ==
  LET found == get(components_data, "aliases")
      aliases == IF isinstance_dict(found) THEN found ELSE Obj(<< >>)
      utils_alias == get(aliases, "utils")
      components_alias == get(aliases, "components")
  IN  [out |->
         (IF ~isinstance_dict(found)
          THEN << Line("FAIL", "components.json.aliases is missing or invalid") >>
          ELSE << >>)
         \o (IF ~isinstance_str(utils_alias) \/ utils_alias.str = << >>
             THEN << Line("FAIL", "components.json.aliases.utils is missing") >>
             ELSE << Line("PASS", "aliases.utils") >>)
         \o (IF ~isinstance_str(components_alias) \/ components_alias.str = << >>
             THEN << Line("FAIL", "components.json.aliases.components is missing") >>
             ELSE << Line("PASS", "aliases.components") >>),
       components_alias |-> components_alias]

\* the registry check with the fix applied only where registries is not a dict
RegistryChecks_OnlyMissing(components_data, apply_fix) ==
  LET registries == get(components_data, "registries")
  IN  IF ~isinstance_dict(registries)
      THEN [out |-> << Line("WARN", "components.json.registries missing; creating it") >>
                    \o (IF apply_fix
                        THEN << Line("PASS", "created registries with @tool-ui entry") >>
                        ELSE << >>),
            data |-> IF apply_fix
                     THEN set_item(components_data, "registries",
                                   Obj([k \in {"@tool-ui"} |-> Str(TOOL_UI_REGISTRY_URL)]))
                     ELSE components_data,
            changed |-> apply_fix]
      ELSE IF get(registries, "@tool-ui") = Str(TOOL_UI_REGISTRY_URL)
      THEN [out |-> << Line("PASS", "@tool-ui registry") >>,
            data |-> components_data, changed |-> FALSE]
      ELSE [out |-> << Line("WARN", "@tool-ui registry missing or different"),
                       Line("", "expected"), Line("", "current") >>,
            data |-> components_data, changed |-> FALSE]

\* run_checks: the check of registries and, with --fix, its repair
RegistryChecks(components_data, apply_fix) ==
  LET registries == get(components_data, "registries")
  IN  IF ~isinstance_dict(registries)
      THEN [out |-> << Line("WARN", "components.json.registries missing; creating it") >>
                    \o (IF apply_fix
                        THEN << Line("PASS", "created registries with @tool-ui entry") >>
                        ELSE << >>),
            data |-> IF apply_fix
                     THEN set_item(components_data, "registries",
                                   Obj([k \in {"@tool-ui"} |-> Str(TOOL_UI_REGISTRY_URL)]))
                     ELSE components_data,
            changed |-> apply_fix]
      ELSE IF get(registries, "@tool-ui") = Str(TOOL_UI_REGISTRY_URL)
      THEN [out |-> << Line("PASS", "@tool-ui registry") >>,
            data |-> components_data, changed |-> FALSE]
      ELSE [out |-> << Line("WARN", "@tool-ui registry missing or different"),
                       Line("", "expected"), Line("", "current") >>
                    \o (IF apply_fix
                        THEN << Line("PASS", "updated @tool-ui registry") >>
                        ELSE << >>),
            data |-> IF apply_fix
                     THEN set_item(components_data, "registries",
                                   set_item(registries, "@tool-ui", Str(TOOL_UI_REGISTRY_URL)))
                     ELSE components_data,
            changed |-> apply_fix]

\* run_checks: the check of tailwind.css
TailwindChecks(components_data, project) ==
  LET tailwind == get(components_data, "tailwind")
      tailwind_css == get(tailwind, "css")
  IN  IF ~isinstance_dict(tailwind)
      THEN << Line("WARN", "components.json.tailwind missing") >>
      ELSE IF ~isinstance_str(tailwind_css) \/ tailwind_css.str = << >>
      THEN << Line("WARN", "components.json.tailwind.css missing") >>
      ELSE IF path_exists(project, tailwind_css.str)
      THEN << Line("PASS", "tailwind.css path exists") >>
      ELSE << Line("FAIL", "tailwind.css path not found") >>

\* read_package_names(project_root): the names, or the exception raised
read_package_names(project) ==
  LET file == project.package_json
      data == load_json(file)
      deps == IF "dependencies" \in DOMAIN data.members
              THEN data.members["dependencies"] ELSE Obj(<< >>)
      dev_deps == IF "devDependencies" \in DOMAIN data.members
                  THEN data.members["devDependencies"] ELSE Obj(<< >>)
  IN  IF file = << >> THEN [names |-> {}, raised |-> None]
      ELSE IF load_json_error(file) # None THEN [names |-> {}, raised |-> load_json_error(file)]
      ELSE IF ~isinstance_dict(data) THEN [names |-> {}, raised |-> AttributeError]
      ELSE [names |-> (IF isinstance_dict(deps) THEN DOMAIN deps.members ELSE {})
                      \cup (IF isinstance_dict(dev_deps) THEN DOMAIN dev_deps.members ELSE {}),
            raised |-> None]

\* run_checks: the doctor block
DoctorChecks(components_alias, project) ==
  LET resolvable == isinstance_str(components_alias)
                    /\ startswith(components_alias.str, <<"@", "/">>)
      components_dir == SubSeq(components_alias.str, 3, Len(components_alias.str))
      tool_ui_dir == join(components_dir, <<"t", "o", "o", "l", "-", "u", "i">>)
      shared_dir == join(tool_ui_dir, <<"s", "h", "a", "r", "e", "d">>)
      missing_modules ==
        { m \in project.tool_ui_imports :
            /\ startswith(m, <<"@", "/", "c", "o", "m", "p", "o", "n", "e", "n", "t", "s", "/", "t", "o", "o", "l", "-", "u", "i", "/">>)
            /\ ~module_exists(project, SubSeq(m, 3, Len(m))) }
      paths_part ==
        IF ~resolvable
        THEN << Line("WARN", "cannot resolve aliases.components to a filesystem path (requires '@/...')") >>
        ELSE << (IF path_exists(project, tool_ui_dir) /\ ~path_exists(project, shared_dir)
                 THEN Line("FAIL", "components/tool-ui exists but components/tool-ui/shared is missing")
                 ELSE IF path_exists(project, shared_dir)
                 THEN Line("PASS", "components/tool-ui/shared exists")
                 ELSE Line("WARN", "components/tool-ui not found yet (no Tool UI components installed)")) >>
             \o (IF missing_modules # {}
                 THEN << Line("FAIL", "missing module paths for Tool UI imports:") >>
                 ELSE IF project.tool_ui_imports # {}
                 THEN << Line("PASS", "resolved Tool UI import paths") >>
                 ELSE << >>)
      head == << Line("INFO", "running doctor checks") >> \o paths_part
      packages == read_package_names(project)
      requires_react_pkg ==
        \E value \in project.assistant_imports : InString(<<"@", "a", "s", "s", "i", "s", "t", "a", "n", "t", "-", "u", "i", "/", "r", "e", "a", "c", "t">>, value)
      requires_ai_sdk_pkg ==
        \E value \in project.assistant_imports : InString(<<"@", "a", "s", "s", "i", "s", "t", "a", "n", "t", "-", "u", "i", "/", "r", "e", "a", "c", "t", "-", "a", "i", "-", "s", "d", "k">>, value)
  IN  IF packages.raised # None THEN Ran(head, packages.raised)
      ELSE Ran(head
               \o (IF requires_react_pkg /\ "@assistant-ui/react" \notin packages.names
                   THEN << Line("FAIL", "code imports @assistant-ui/react but package is missing") >>
                   ELSE IF requires_react_pkg
                   THEN << Line("PASS", "@assistant-ui/react package installed") >>
                   ELSE << >>)
               \o (IF requires_ai_sdk_pkg /\ "@assistant-ui/react-ai-sdk" \notin packages.names
                   THEN << Line("FAIL", "code imports @assistant-ui/react-ai-sdk but package is missing") >>
                   ELSE IF requires_ai_sdk_pkg
                   THEN << Line("PASS", "@assistant-ui/react-ai-sdk package installed") >>
                   ELSE << >>),
               None)

\* what one run leaves: the file, the lines printed, the uncaught exception
\* or None, and the exit status
Left(file, out, exc, code) ==
  [file |-> file, stdout |-> out, exception |-> exc, exit_code |-> code]

\* run_checks(project_root, apply_fix, doctor) and the exit of main
run_checks(file, project, apply_fix, doctor) ==
  IF file = << >>
  THEN Left(file, << Line("FAIL", "components.json not found at project root"),
                     Line("", "Hint: initialize shadcn first, then retry.") >>, None, 1)
  ELSE IF load_json_error(file) # None
  THEN Left(file, << Line("FAIL", "components.json is invalid JSON") >>, None, 1)
  ELSE IF ~isinstance_dict(load_json(file))
  THEN Left(file, << >>, AttributeError, 1)
  ELSE
    LET components_data == load_json(file)
        aliases == AliasChecks(components_data)
        registries == RegistryChecks(components_data, apply_fix)
        written == apply_fix /\ registries.changed
        checked == aliases.out \o registries.out \o TailwindChecks(components_data, project)
                   \o (IF written THEN << Line("INFO", "updated components.json") >> ELSE << >>)
        after_write == IF written THEN write_json(registries.data) ELSE file
        doctored == IF doctor THEN DoctorChecks(aliases.components_alias, project)
                    ELSE Ran(<< >>, None)
        out == checked \o doctored.printed
               \o (IF ~apply_fix
                   THEN << Line("", "Run with --fix to auto-add/update @tool-ui registry entry.") >>
                   ELSE << >>)
    IN  IF doctored.raised # None
        THEN Left(after_write, checked \o doctored.printed, doctored.raised, 1)
        ELSE Left(after_write, out, None, IF fail_count(out) > 0 THEN 1 ELSE 0)

-----------------------------------------------------------------------------
(* Runs of tool_ui_compat.py on a project, one after the other             *)

MaxRuns == 2

\* a member left out of a sample object
Missing == [type |-> "missing"]

\* the object with the members given, the missing ones left out
Members(keys, values) ==
  LET present == { i \in DOMAIN keys : values[i] # Missing }
  IN  Obj([k \in { keys[i] : i \in present } |->
             values[CHOOSE i \in present : keys[i] = k]])

SampleAliases ==
  { Missing,
    Members(<< "utils", "components" >>, << Str(<<"@", "/", "l", "i", "b", "/", "u", "t", "i", "l", "s">>), Str(<<"@", "/", "c", "o", "m", "p", "o", "n", "e", "n", "t", "s">>) >>) }

\* registries: missing, null, empty, right, different, other entries only,
\* an entry of null next to another, right next to another
SampleRegistries ==
  { Missing,
    Null,
    Obj(<< >>),
    Members(<< "@tool-ui" >>, << Str(TOOL_UI_REGISTRY_URL) >>),
    Members(<< "@tool-ui" >>, << Str(<<"h", "t", "t", "p", "s", ":", "/", "/", "e", "x", "a", "m", "p", "l", "e", ".", "c", "o", "m", "/", "r", "/", "{", "n", "a", "m", "e", "}", ".", "j", "s", "o", "n">>) >>),
    Members(<< "@acme" >>, << Str(<<"h", "t", "t", "p", "s", ":", "/", "/", "a", "c", "m", "e", ".", "d", "e", "v", "/", "{", "n", "a", "m", "e", "}", ".", "j", "s", "o", "n">>) >>),
    Members(<< "@acme", "@tool-ui" >>, << Str(<<"h", "t", "t", "p", "s", ":", "/", "/", "a", "c", "m", "e", ".", "d", "e", "v", "/", "{", "n", "a", "m", "e", "}", ".", "j", "s", "o", "n">>), Null >>),
    Members(<< "@acme", "@tool-ui" >>,
            << Str(<<"h", "t", "t", "p", "s", ":", "/", "/", "a", "c", "m", "e", ".", "d", "e", "v", "/", "{", "n", "a", "m", "e", "}", ".", "j", "s", "o", "n">>), Str(TOOL_UI_REGISTRY_URL) >>) }

SampleTailwind ==
  { Missing, Members(<< "css" >>, << Str(<<"a", "p", "p", "/", "s", "t", "y", "l", "e", "s", "/", "g", "l", "o", "b", "a", "l", "s", ".", "c", "s", "s">>) >>) }

\* components.json: absent, not JSON, a JSON list, or an object written by hand
SampleComponents ==
  { << >>,
    << [layout |-> "invalid", data |-> Null] >>,
    << [layout |-> "hand", data |-> Arr] >> }
  \cup { << [layout |-> "hand",
             data |-> Members(<< "aliases", "registries", "tailwind" >>, << a, r, t >>)] >> :
         a \in SampleAliases, r \in SampleRegistries, t \in SampleTailwind }

\* the projects of the tests, and one with a package.json that is not JSON
SampleProjects ==
  { [paths |-> { <<"a", "p", "p", "/", "s", "t", "y", "l", "e", "s", "/", "g", "l", "o", "b", "a", "l", "s", ".", "c", "s", "s">> },
     tool_ui_imports |-> {}, assistant_imports |-> {}, package_json |-> << >>],
    [paths |-> { <<"a", "p", "p", "/", "s", "t", "y", "l", "e", "s", "/", "g", "l", "o", "b", "a", "l", "s", ".", "c", "s", "s">>, <<"c", "o", "m", "p", "o", "n", "e", "n", "t", "s", "/", "t", "o", "o", "l", "-", "u", "i">> },
     tool_ui_imports |-> { <<"@", "/", "c", "o", "m", "p", "o", "n", "e", "n", "t", "s", "/", "t", "o", "o", "l", "-", "u", "i", "/", "p", "l", "a", "n">> }, assistant_imports |-> {},
     package_json |-> << >>],
    [paths |-> { <<"a", "p", "p", "/", "s", "t", "y", "l", "e", "s", "/", "g", "l", "o", "b", "a", "l", "s", ".", "c", "s", "s">>, <<"c", "o", "m", "p", "o", "n", "e", "n", "t", "s", "/", "t", "o", "o", "l", "-", "u", "i">>,
                 <<"c", "o", "m", "p", "o", "n", "e", "n", "t", "s", "/", "t", "o", "o", "l", "-", "u", "i", "/", "s", "h", "a", "r", "e", "d">>, <<"c", "o", "m", "p", "o", "n", "e", "n", "t", "s", "/", "t", "o", "o", "l", "-", "u", "i", "/", "p", "l", "a", "n", ".", "t", "s", "x">> },
     tool_ui_imports |-> { <<"@", "/", "c", "o", "m", "p", "o", "n", "e", "n", "t", "s", "/", "t", "o", "o", "l", "-", "u", "i", "/", "p", "l", "a", "n">> },
     assistant_imports |-> { <<"@", "a", "s", "s", "i", "s", "t", "a", "n", "t", "-", "u", "i", "/", "r", "e", "a", "c", "t">> },
     package_json |-> << [layout |-> "hand",
                          data |-> Members(<< "dependencies" >>,
                                           << Members(<< "@assistant-ui/react" >>,
                                                      << Str(<<"^", "0", ".", "0", ".", "0">>) >>) >>)] >>],
    [paths |-> {},
     tool_ui_imports |-> {}, assistant_imports |-> { <<"@", "a", "s", "s", "i", "s", "t", "a", "n", "t", "-", "u", "i", "/", "r", "e", "a", "c", "t", "-", "a", "i", "-", "s", "d", "k">> },
     package_json |-> << [layout |-> "invalid", data |-> Null] >>] }

InitToolUi ==
  /\ CatIdle
  /\ ScanIdle
  /\ TermIdle
  /\ PowerIdle
  /\ CmpIdle
  /\ RaceIdle
  /\ components_json \in SampleComponents
  /\ project_root \in SampleProjects
  /\ args = [fix |-> FALSE, doctor |-> FALSE]
  /\ ui_stdout = << >>
  /\ ui_exception = None
  /\ ui_exit_code = 0
  /\ runs = 0

\* main: exit_code = run_checks(project_root, args.fix, args.doctor); raise SystemExit(exit_code)
RunToolUiCompat ==
  /\ runs < MaxRuns
  /\ \E apply_fix \in BOOLEAN, doctor \in BOOLEAN :
       LET left == run_checks(components_json, project_root, apply_fix, doctor)
       IN  /\ args' = [fix |-> apply_fix, doctor |-> doctor]
           /\ components_json' = left.file
           /\ ui_stdout' = left.stdout
           /\ ui_exception' = left.exception
           /\ ui_exit_code' = left.exit_code
  /\ runs' = runs + 1
  /\ UNCHANGED project_root
  /\ UNCHANGED << catVars, scanVars, osVars, termVars, powerVars, cmpVars, raceVars >>

NextToolUi == RunToolUiCompat

SpecToolUi == InitToolUi /\ [][NextToolUi]_vars

----------------------------------------------------------------------------
(* Properties of the classifier (SpecCategorize)                           *)

MatchesIgnore(name) ==
  \E k \in DOMAIN IGNORE_PATTERNS : re_search(IGNORE_PATTERNS[k], name)

\* the AUTO_KILL patterns found, case-insensitively, in s
AutoKillMatches(s) ==
  { k \in DOMAIN AUTO_KILL_PATTERNS : re_search(AUTO_KILL_PATTERNS[k].re, s) }

\* C1: whenever name matches an IGNORE pattern, every call of
\* categorize_process returns IGNORE, whatever the command is and whatever
\* AUTO_KILL patterns the command or the name+command string matches.
C1_IgnorePrecedence ==
  (cResults # << >> /\ MatchesIgnore(cName)) =>
    \A i \in DOMAIN cResults : cResults[i].category = "IGNORE"

\* a call on a name that matches IGNORE with a command that matches AUTO_KILL
C1_Witness ==
  /\ cResults # << >>
  /\ MatchesIgnore(cName)
  /\ AutoKillMatches(cCommand) # {}
  /\ cResults[1].category = "IGNORE"

C3_FirstMatchWins ==
  (cResults # << >> /\ ~MatchesIgnore(cName)) =>
    LET m == AutoKillMatches(cName \o << " " >> \o cCommand)
        expected ==
          IF m = {}
          THEN [category |-> "ASK", reason |-> "Mystery creature - me not know"]
          ELSE [category |-> "AUTO_KILL",
                reason |-> AUTO_KILL_PATTERNS[CHOOSE k \in m : \A j \in m : k <= j].desc]
    IN  \A i \in DOMAIN cResults : cResults[i] = expected

\* a call where several patterns match and the first one of them gave the reason
C3_Witness ==
  /\ cResults # << >>
  /\ ~MatchesIgnore(cName)
  /\ Cardinality(AutoKillMatches(cName \o << " " >> \o cCommand)) >= 2
  /\ cResults[1].category = "AUTO_KILL"

----------------------------------------------------------------------------
(* Properties of the scan command (SpecScan)                               *)

\* the categories of the records shown in what main printed
ShownCategories ==
  IF printed.format = "json"
  THEN { printed.entries[i].category : i \in DOMAIN printed.entries }
  ELSE IF printed.format = "text"
  THEN { printed.entries[i].record.category : i \in DOMAIN printed.entries }
  ELSE {}

\* C4: what the scan command prints, as text or as JSON, shows no record
\* of category IGNORE, for every listing and every pair of thresholds.
C4_NoIgnoreShown == "IGNORE" \notin ShownCategories

\* a JSON run where get_processes returned an IGNORE record next to others
C4_Witness ==
  /\ scanPc = "done"
  /\ as_json
  /\ \E i \in DOMAIN processes : processes[i].category = "IGNORE"
  /\ printed.entries # << >>

----------------------------------------------------------------------------
(* Properties of terminate (SpecTerminate)                                 *)

Count(sig) == Cardinality({ i \in DOMAIN sent : sent[i] = sig })

\* C5: in graceful mode a poll that finds the process dead is the last
\* poll: terminate has returned success, with no sleep after that poll, no
\* re-check, and SIGTERM the one signal sent.
C5_DeadPollReturns ==
  ~force =>
    \A i \in DOMAIN polls :
      ~polls[i] =>
        /\ i = Len(polls)
        /\ pc = "done"
        /\ outcome.success
        /\ sleeps = Len(polls)
        /\ rechecks = << >>
        /\ sent = << "SIGTERM" >>

\* the process is dead at the first poll
C5_Witness ==
  /\ ~force
  /\ pc = "done"
  /\ polls = << FALSE >>
  /\ outcome.success
  /\ sent = << "SIGTERM" >>

\* C6: in graceful mode SIGKILL is sent only after six polls that all found
\* the process alive, and a process alive at all six polls and dead at the
\* re-check yields success with SIGTERM then SIGKILL the signals sent.
C6_Escalation ==
  ~force =>
    /\ Count("SIGKILL") > 0 =>
         /\ Len(polls) = 6
         /\ \A i \in 1..6 : polls[i]
         /\ sent = << "SIGTERM", "SIGKILL" >>
    /\ (pc = "done" /\ Len(polls) = 6 /\ (\A i \in 1..6 : polls[i]) /\ rechecks = << FALSE >>) =>
         /\ outcome.success
         /\ sent = << "SIGTERM", "SIGKILL" >>
         /\ errnos = << "ok", "ok" >>

\* six alive polls, then dead at the re-check
C6_Witness ==
  /\ ~force
  /\ pc = "done"
  /\ Len(polls) = 6
  /\ \A i \in 1..6 : polls[i]
  /\ rechecks = << FALSE >>
  /\ outcome.success

\* C7: an invocation passes at most two signals to os.kill: at most one
\* SIGTERM and one SIGKILL in graceful mode, no SIGTERM and at most one
\* SIGKILL in forced mode.
C7_AtMostTwoSignals ==
  /\ Len(sent) <= 2
  /\ Count("SIGTERM") <= 1
  /\ Count("SIGKILL") <= 1
  /\ force => Count("SIGTERM") = 0

\* a graceful run with both signals, and an error on the second
C7_Witness ==
  /\ pc = "done"
  /\ sent = << "SIGTERM", "SIGKILL" >>
  /\ errnos = << "ok", "ESRCH" >>

\* C8: in forced mode with the name resolved, terminate makes no liveness
\* check and no wait, sends SIGKILL once and nothing else, and returns
\* success exactly when os.kill raised no error; its failures are never the
\* still-alive failure.
C8_ForcedMode ==
  force =>
    /\ polls = << >> /\ rechecks = << >> /\ sleeps = 0
    /\ (pc = "done" /\ termName # None) =>
         /\ sent = << "SIGKILL" >>
         /\ outcome.success <=> (errnos = << "ok" >>)
         /\ outcome.message # MsgImpossible(termName)

\* forced mode reports success while the process is still there
C8_Witness ==
  /\ force
  /\ pc = "done"
  /\ termName # None
  /\ outcome.success
  /\ procAlive

\* C9: when the name is not resolved, terminate returns at once the failure
\* with the already-gone message, in both modes, with no signal sent, no
\* poll and no wait.
C9_NotFound ==
  (pc \notin {"idle", "start"} /\ termName = None) =>
    /\ pc = "done"
    /\ ~outcome.success
    /\ outcome.message = MsgGone(pid)
    /\ sent = << >>
    /\ polls = << >> /\ rechecks = << >> /\ sleeps = 0

\* forced mode on a process that is not there
C9_Witness ==
  /\ pc = "done"
  /\ force
  /\ ~procAlive
  /\ termName = None
  /\ outcome.message = MsgGone(pid)

\* the messages of each failure kind, over the names and pids of the model
PermissionMessages ==
  { MsgForcePermission(n, p) : n \in SampleProcNames, p \in SamplePids }
    \cup { MsgPermission(n, p) : n \in SampleProcNames, p \in SamplePids }
GoneMessages == { MsgGone(p) : p \in SamplePids }
StillAliveMessages == { MsgImpossible(n) : n \in SampleProcNames }

MessagesDistinct ==
  /\ PermissionMessages \cap GoneMessages = {}
  /\ PermissionMessages \cap StillAliveMessages = {}
  /\ GoneMessages \cap StillAliveMessages = {}

LastErrno == IF errnos = << >> THEN "none" ELSE errnos[Len(errnos)]

PermissionDenied == pc = "done" /\ LastErrno = "EPERM"
AlreadyGone == pc = "done" /\ termName = None
\* SIGKILL was delivered and the process is still there when terminate returns
StillAliveAfterKill ==
  /\ pc = "done"
  /\ sent # << >> /\ sent[Len(sent)] = "SIGKILL" /\ LastErrno = "ok"
  /\ procAlive

\* C10 as stated: each of the three kinds is a failure with a message of its
\* own, and a process still alive after the forceful signal is always a
\* failure, in either mode.
C10_Original ==
  /\ MessagesDistinct
  /\ PermissionDenied => ~outcome.success /\ outcome.message \in PermissionMessages
  /\ AlreadyGone => ~outcome.success /\ outcome.message \in GoneMessages
  /\ StillAliveAfterKill => ~outcome.success /\ outcome.message \in StillAliveMessages

\* C10 amended: the still-alive failure is that of graceful mode, where the
\* re-check finds the process alive; forced mode makes no re-check.
C10_FailureKinds ==
  /\ MessagesDistinct
  /\ PermissionDenied => ~outcome.success /\ outcome.message \in PermissionMessages
  /\ AlreadyGone => ~outcome.success /\ outcome.message \in GoneMessages
  /\ (~force /\ StillAliveAfterKill) =>
       /\ rechecks = << TRUE >>
       /\ ~outcome.success
       /\ outcome.message \in StillAliveMessages

\* graceful mode, the process survives the forceful signal
C10_Witness ==
  /\ ~force
  /\ StillAliveAfterKill
  /\ ~outcome.success
  /\ outcome.message = MsgImpossible(termName)

\* C11: the terminate command exits with code 0 exactly when terminate
\* returned success, and with code 1 for every failure, the not-found one
\* included.
C11_ExitCode ==
  exit_code # << >> =>
    /\ pc = "done"
    /\ exit_code \in { << 0 >>, << 1 >> }
    /\ (exit_code = << 0 >>) <=> outcome.success
    /\ AlreadyGone => exit_code = << 1 >>

\* the command has exited with 1 on a process that was not found
C11_Witness ==
  /\ exit_code = << 1 >>
  /\ AlreadyGone
  /\ outcome.message = MsgGone(pid)

\* C12: terminate ends in a (success, message) pair for every result of the
\* name lookup, of each os.kill and of each liveness check: no exception
\* leaves it, it is never stuck before its return, and an os.kill that
\* raised is the last signal sent.
C12_StructuredOutcome ==
  /\ pc # "raised"
  /\ pc \notin {"idle", "done"} => ENABLED terminate
  /\ pc = "done" => outcome.success \in BOOLEAN /\ outcome.message.template # ""
  /\ \A i \in DOMAIN errnos : errnos[i] # "ok" => i = Len(errnos) /\ Len(sent) = i

\* graceful mode, the process vanished between the name lookup and SIGTERM
C12_Witness ==
  /\ ~force
  /\ pc = "done"
  /\ sent = << "SIGTERM" >>
  /\ errnos = << "ESRCH" >>
  /\ ~outcome.success
  /\ outcome.message = MsgOSError("ESRCH")

\* C13: every invocation of terminate returns; on the way it makes at most
\* 6 polls, at most one re-check and at most 7 waits, and nothing is polled or
\* waited for after the re-check.
C13_Terminates ==
  /\ [](/\ Len(polls) <= 6
        /\ Len(rechecks) <= 1
        /\ sleeps <= 7
        /\ rechecks # << >> => pc = "done")
  /\ <>(pc = "done")

\* the longest run: six polls, the forceful signal, the wait and the re-check
C13_Witness ==
  /\ pc = "done"
  /\ Len(polls) = 6
  /\ Len(rechecks) = 1
  /\ sleeps = 7
  /\ rechecks = << TRUE >>

-----------------------------------------------------------------------------
(* Properties of get_processes (SpecScan), stated of the list processes at  *)
(* scanPc = "print", where get_processes has just returned it              *)

\* the data lines of the listing: all but the header line
DataLines == Tail(ps_stdout)

ColumnsOf(line) == split(line, 4)
PidOf(line) == int(ColumnsOf(line)[1]).val
CpuOf(line) == float(ColumnsOf(line)[2]).val
MemKbOf(line) == float(ColumnsOf(line)[3]).val
CommandOf(line) == ColumnsOf(line)[5]

\* the line names the scan itself
IsSelf(line) == InString(SelfMarker, CommandOf(line))

\* cpu_percent >= the CPU threshold or mem_mb >= the memory threshold
\* (mem_mb is RSS / 1024)
Breaches(line) ==
  \/ CpuOf(line) >= cpu_threshold
  \/ MemKbOf(line) >= mem_threshold * 1024

\* the positions of the well-formed data lines, other than the scan's
\* own, that breach a threshold
Expected14 ==
  { i \in DOMAIN DataLines :
      WellFormed(DataLines[i]) /\ ~IsSelf(DataLines[i]) /\ Breaches(DataLines[i]) }

\* C14: get_processes returns exactly the well-formed rows with
\* cpu_percent >= the CPU threshold or mem_mb >= the memory threshold, minus
\* the scan's own rows: one record per such row, and none for a row below both
\* thresholds.
C14_ThresholdOr ==
  scanPc = "print" =>
    /\ Len(processes) = Cardinality(Expected14)
    /\ \A i \in Expected14 :
         \E j \in DOMAIN processes :
           /\ processes[j].pid = PidOf(DataLines[i])
           /\ processes[j].cpu_percent = CpuOf(DataLines[i])
           /\ processes[j].mem_mb = MemKbOf(DataLines[i])
    /\ \A i \in DOMAIN DataLines :
         (WellFormed(DataLines[i]) /\ ~Breaches(DataLines[i])) =>
           \A j \in DOMAIN processes : processes[j].pid # PidOf(DataLines[i])

\* under the default thresholds: a row over the memory threshold only and a
\* row exactly on both thresholds were returned
C14_Witness ==
  /\ scanPc = "print"
  /\ cpu_threshold = 100
  /\ mem_threshold = 5000
  /\ Len(processes) = 2
  /\ \E j \in DOMAIN processes :
       processes[j].cpu_percent < cpu_threshold /\ processes[j].mem_mb > mem_threshold * 1024
  /\ \E j \in DOMAIN processes :
       processes[j].cpu_percent = cpu_threshold /\ processes[j].mem_mb = mem_threshold * 1024

\* C15: a process whose command contains 'hunt_processes' is never in the
\* result of get_processes, whatever its usage and classification, also when
\* the substring lies beyond the first 100 characters of the command.
C15_SelfExcluded ==
  scanPc = "print" =>
    \A i \in DOMAIN DataLines :
      (Len(ColumnsOf(DataLines[i])) >= 5 /\ IsSelf(DataLines[i])) =>
        \A j \in DOMAIN processes : processes[j].pid # PidOf(DataLines[i])

\* a listing with a row of the scan whose marker lies beyond character 100,
\* over both thresholds, next to a row that was returned
C15_Witness ==
  /\ scanPc = "print"
  /\ \E i \in DOMAIN DataLines :
       /\ WellFormed(DataLines[i])
       /\ IsSelf(DataLines[i])
       /\ ~InString(SelfMarker, Prefix(CommandOf(DataLines[i]), CommandDisplayLen))
       /\ Breaches(DataLines[i])
  /\ processes # << >>

\* C16: the returned list is in descending order of cpu_percent + mem_mb/100
\* (compared here multiplied by 1024000): each record's score is >= that of
\* the next one.
C16_SortedByScore ==
  scanPc = "print" =>
    \A j \in 1..(Len(processes) - 1) :
      processes[j].cpu_percent * 102400 + processes[j].mem_mb
        >= processes[j + 1].cpu_percent * 102400 + processes[j + 1].mem_mb

\* (cpu=5, mem=1000) was listed before (cpu=50, mem=10) and returned after it
C16_Witness ==
  /\ scanPc = "print"
  /\ Len(DataLines) = 2
  /\ CpuOf(DataLines[1]) = 50 /\ MemKbOf(DataLines[1]) = 1000 * 10240
  /\ CpuOf(DataLines[2]) = 500 /\ MemKbOf(DataLines[2]) = 10 * 10240
  /\ Len(processes) = 2
  /\ processes[1].pid = PidOf(DataLines[2])
  /\ processes[2].pid = PidOf(DataLines[1])

\* C17: each record's category and reason are those of categorize_process on
\* the untruncated command of its row, and its stored command is the first
\* 100 characters of that command.
C17_ClassifiedUntruncated ==
  scanPc = "print" =>
    \A j \in DOMAIN processes :
      \E i \in DOMAIN DataLines :
        LET cols == ColumnsOf(DataLines[i])
            cat == categorize_process(cols[4], cols[5])
        IN  /\ WellFormed(DataLines[i])
            /\ processes[j].pid = PidOf(DataLines[i])
            /\ processes[j].name = cols[4]
            /\ processes[j].category = cat.category
            /\ processes[j].reason = cat.reason
            /\ processes[j].command = SubSeq(cols[5], 1, Min(Len(cols[5]), 100))

\* a record cut to 100 characters whose category comes from a match beyond
\* character 100: the stored command alone would be classified otherwise
C17_Witness ==
  /\ scanPc = "print"
  /\ \E j \in DOMAIN processes :
       /\ Len(processes[j].command) = 100
       /\ processes[j].category = "AUTO_KILL"
       /\ categorize_process(processes[j].name, processes[j].command).category = "ASK"

\* a data line the loop skips as malformed
Malformed(line) == ~WellFormed(line)

\* C18: a malformed row (fewer than 5 columns, or an unparseable pid, CPU or
\* memory field) is skipped and the scan goes on: the result equals the
\* result on the same listing without its malformed rows.
C18_MalformedSkipped ==
  scanPc = "print" =>
    processes = get_processes(<< Head(ps_stdout) >> \o SelectSeq(DataLines, WellFormed),
                              cpu_threshold, mem_threshold)

\* a malformed row came first and the row after it was returned
C18_Witness ==
  /\ scanPc = "print"
  /\ Len(DataLines) = 2
  /\ Malformed(DataLines[1])
  /\ WellFormed(DataLines[2])
  /\ Len(processes) = 1
  /\ processes[1].pid = PidOf(DataLines[2])

-----------------------------------------------------------------------------
(* Properties of the baseline store (SpecBaseline)                          *)

\* the snapshot of the most recent before: the battery reading and the top
\* processes it read, the killed count and the freed memory it was given
LastBeforeSnapshot ==
  [battery |-> get_battery_info(last_before.pmset, last_before.at),
   top_processes |-> get_top_cpu_processes(last_before.top, 5),
   processes_killed |-> last_before.killed,
   mem_freed_mb |-> last_before.mem]

\* C19: after any sequence of before/after/report/status commands the
\* baseline store holds at most one snapshot, and once a before has run it
\* holds exactly the snapshot of the most recent before, whatever it held
\* before that.
C19_OneBaseline ==
  /\ Len(baseline_file) <= 1
  /\ last_before.ran => baseline_file = << LastBeforeSnapshot >>

\* a second before has replaced the snapshot of the first, and a comparison
\* has run since
C19_Witness ==
  /\ last_before.ran
  /\ last_before.at = 2
  /\ argv.cmd = "after"
  /\ baseline_file # << StaleBaseline >>
  /\ baseline_file[1].battery.timestamp = 2
  /\ baseline_file[1].processes_killed = 3

\* C20: the after, report and status commands leave the stored baseline,
\* its presence and its content, as it was before the command.
C20_ComparatorReadsOnly ==
  [][(clock' # clock /\ argv'.cmd \in {"after", "report", "status", ""})
       => baseline_file' = baseline_file]_vars

\* an after has printed its comparison of a stored baseline, which is still
\* there
C20_Witness ==
  /\ argv.cmd = "after"
  /\ exception = None
  /\ \E i \in DOMAIN stdout : stdout[i].part = "table"
  /\ last_before.ran
  /\ baseline_file = << LastBeforeSnapshot >>

\* the last command was cmd and has ended
Ended(cmd) == argv.cmd = cmd /\ clock > 1

\* the parts named name of what the last command printed
Printed(name) == SelectSeq(stdout, LAMBDA p : p.part = name)

\* C21: without a baseline, the after command prints the guidance message
\* and returns normally: no impact report, no reading of the battery, no
\* baseline created.
C21_NoBaselineGuidance ==
  [][(clock' # clock /\ argv'.cmd = "after" /\ ~exists(baseline_file)) =>
       /\ stdout' = << [part |-> "no_baseline"] >>
       /\ exception' = None
       /\ pmset_stdout' = pmset_stdout
       /\ top_stdout' = top_stdout
       /\ baseline_file' = << >>]_vars

\* the first command was an after, with no baseline: nothing was read from
\* pmset or ps and there is still no baseline
C21_Witness ==
  /\ Ended("after")
  /\ clock = 2
  /\ baseline_file = << >>
  /\ pmset_stdout = << >>
  /\ top_stdout = << >>
  /\ stdout = << [part |-> "no_baseline"] >>
  /\ exception = None

\* C22 as claimed: after and report run to completion and exit 0 for every
\* battery reading, with or without a stored baseline.
C22_Original ==
  (Ended("after") \/ Ended("report")) => exception = None

\* the battery reading the last command took
CurrentBattery == BatteryOf[pmset_stdout]

\* the last command ran show_impact_report with a baseline
ReportedWithBaseline ==
  /\ Ended("after") \/ Ended("report")
  /\ exists(baseline_file)

\* C23 as claimed: the impact report includes the time-remaining comparison
\* exactly when the baseline's and the current time_remaining_minutes are
\* both known, and where one is unknown the rest of the report is still
\* produced.
C23_Original ==
  ReportedWithBaseline =>
    LET before_known == read_baseline(baseline_file).battery.time_remaining_minutes # << >>
        after_known == CurrentBattery.time_remaining_minutes # << >>
    IN  /\ (Printed("comparison") # << >>) <=> (before_known /\ after_known)
        /\ ~(before_known /\ after_known) =>
             /\ exception = None
             /\ Printed("table") # << >>
             /\ Printed("battery_art") # << >>
             /\ Printed("footer") # << >>

\* an after has compared the baseline of a before with the battery reading
\* that before had taken: no change of the power state in between
RoundTrip ==
  /\ Ended("after")
  /\ last_before.ran
  /\ pmset_stdout = last_before.pmset

ReportedKilled ==
  IF argv.cmd = "report" THEN argv.killed ELSE read_baseline(baseline_file).processes_killed

\* C26: the impact report uses the improved framing exactly when a baseline
\* exists and the killed count is > 0, whatever the battery and CPU figures.
C26_ImprovedFraming ==
  /\ (Ended("after") \/ Ended("report")) =>
       \A i \in DOMAIN stdout :
         stdout[i].part = "battery_art" =>
           (stdout[i].improved <=> (exists(baseline_file) /\ ReportedKilled > 0))
  /\ (Ended("status") \/ Ended("")) =>
       \A i \in DOMAIN stdout : stdout[i].part = "battery_art" => ~stdout[i].improved

\* a report of three kills without a baseline, and the plain framing
C26_Witness ==
  /\ Ended("report")
  /\ argv.killed = 3
  /\ ~exists(baseline_file)
  /\ Printed("reduction") = << >>
  /\ Printed("battery_art") # << >>
  /\ ~Printed("battery_art")[1].improved

\* terminate has returned in graceful mode for a process whose name it resolved
GracefulReturned == ~force /\ pc = "done" /\ termName # None

\* C28 as claimed: in graceful mode, for a resolved name, terminate fails
\* only if a signal send was denied for lack of permission or the process is
\* still alive after the forceful signal; a process that exits on its own at
\* any point never yields a failure.
C28_Original ==
  (GracefulReturned /\ ~outcome.success) =>
    LastErrno = "EPERM" \/ rechecks = << TRUE >>

\* C28 amended: in graceful mode, for a resolved name, terminate fails exactly
\* when a signal send raised an OSError (permission denied, or no such process
\* because the target exited just before the send) or the process is still
\* alive after the forceful signal; a process found gone by a poll or by the
\* re-check never yields a failure.
C28_GracefulFailure ==
  GracefulReturned =>
    /\ ~outcome.success <=> (LastErrno \in {"EPERM", "ESRCH"} \/ rechecks = << TRUE >>)
    /\ LastErrno = "EPERM" => outcome.message = MsgPermission(termName, pid)
    /\ LastErrno = "ESRCH" => outcome.message = MsgOSError("ESRCH")
    /\ (polls # << >> /\ ~polls[Len(polls)]) =>
         outcome = [success |-> TRUE, message |-> MsgPeaceful(termName)]
    /\ rechecks = << FALSE >> =>
         outcome = [success |-> TRUE, message |-> MsgBonk(termName, pid)]

\* the process outlived six polls and exited just before SIGKILL was sent
C28_Witness ==
  /\ GracefulReturned
  /\ Len(polls) = PollAttempts
  /\ sent = << "SIGTERM", "SIGKILL" >>
  /\ errnos = << "ok", "ESRCH" >>
  /\ ~procAlive
  /\ ~outcome.success

\* C24: get_comparison_art puts every difference after_min - before_min in
\* exactly one of five tiers: > 30, 11..30, 1..10, 0 and < 0; so 31, 11, 1,
\* 0 and -1 fall in the five tiers in this order, 30 with 11 and 10 with 1.
C24_FiveTiers ==
  cmp_art # NoComparison =>
    LET delta == cmp_after - cmp_before
    IN  /\ cmp_art.diff = delta
        /\ cmp_art.tier \in {"mammoth victory", "good hunt", "little bit better",
                             "same same", "number go down"}
        /\ cmp_art.tier = "mammoth victory" <=> delta > 30
        /\ cmp_art.tier = "good hunt" <=> (10 < delta /\ delta <= 30)
        /\ cmp_art.tier = "little bit better" <=> (0 < delta /\ delta <= 10)
        /\ cmp_art.tier = "same same" <=> delta = 0
        /\ cmp_art.tier = "number go down" <=> delta < 0

\* a gain of exactly 30 minutes, reported in the second tier
C24_Witness ==
  /\ cmp_art # NoComparison
  /\ cmp_after - cmp_before = 30
  /\ cmp_art.tier = "good hunt"

\* the after of the race has ended
AfterEnded == a_pc = "done"

\* C29 as claimed: when a before interleaves with an after, the values the
\* comparison takes from its two reads of the baseline file come from one
\* and the same stored snapshot, and the comparison does not crash on the file.
C29_Original ==
  AfterEnded =>
    /\ a_ran.raised \notin {JSONDecodeError, FileNotFoundError}
    /\ (a_baseline # << >> /\ a_report_baseline # << >>) => a_report_baseline = a_baseline

\* the snapshots the file can hold in the race: the old baseline, the new one
StoredSnapshots == { << StaleBaseline >> } \cup (IF b_pc = "done" THEN { b_data } ELSE {})

\* C29 amended: each of the comparison's two reads returns the whole old
\* baseline, the whole new one, or the empty text of a file being rewritten;
\* the first read (killed count, freed memory) and the second (battery, top
\* processes) need not agree, the first can be old and the second new but
\* never the reverse; the comparison ends in a JSON decode error exactly when
\* one of its reads returned the empty text, and never in a missing-file error.
C29_Race ==
  /\ a_baseline \in {<< >>, << Truncated >>} \cup StoredSnapshots
  /\ a_report_baseline \in {<< >>, << Truncated >>} \cup StoredSnapshots
  /\ (a_baseline = b_data /\ a_report_baseline # << >>) => a_report_baseline = b_data
  /\ AfterEnded =>
       /\ a_ran.raised \in {None, TypeError, JSONDecodeError}
       /\ a_ran.raised = JSONDecodeError
            <=> (a_baseline = << Truncated >> \/ a_report_baseline = << Truncated >>)
       /\ \A i \in DOMAIN a_ran.printed :
            /\ a_ran.printed[i].part = "kill_art" =>
                 a_ran.printed[i].killed = a_baseline[1].processes_killed
            /\ a_ran.printed[i].part = "comparison" =>
                 << a_ran.printed[i].before >> = a_report_baseline[1].battery.time_remaining_minutes

\* the comparison read the old baseline first and the new one second, and
\* reported without an exception
C29_Witness ==
  /\ AfterEnded
  /\ a_baseline = << StaleBaseline >>
  /\ a_report_baseline = b_data
  /\ b_data # << StaleBaseline >>
  /\ a_ran.raised = None
  /\ \E i \in DOMAIN a_ran.printed : a_ran.printed[i].part = "comparison"

\* components.json exists and its text parses to a JSON object
ParsesToObject ==
  /\ components_json # << >>
  /\ load_json_error(components_json) = None
  /\ isinstance_dict(load_json(components_json))

\* C27: after a run with --fix on a project whose components.json parses to
\* a JSON object, registries["@tool-ui"] in the file is the Tool UI registry
\* URL, whatever registries was before; a --fix run that follows a --fix run
\* leaves the file as it is.
C27_FixIdempotent ==
  /\ []((runs >= 1 /\ args.fix /\ ParsesToObject) =>
          LET registries == get(load_json(components_json), "registries")
          IN  /\ isinstance_dict(registries)
              /\ get(registries, "@tool-ui") = Str(TOOL_UI_REGISTRY_URL))
  /\ [][(runs' = runs + 1 /\ runs >= 1 /\ args.fix /\ args'.fix /\ ParsesToObject) =>
          components_json' = components_json]_vars

\* the second of two runs, with --fix, found the entry that the first had
\* written into an empty registries, and wrote nothing
C27_Witness ==
  /\ runs = 2
  /\ args.fix
  /\ ParsesToObject
  /\ components_json[1].layout = "dumps"
  /\ DOMAIN get(load_json(components_json), "registries").members = {"@tool-ui"}
  /\ \E i \in DOMAIN ui_stdout : ui_stdout[i] = Line("PASS", "@tool-ui registry")
  /\ \A i \in DOMAIN ui_stdout : ui_stdout[i].level # "INFO"
  /\ ui_exit_code = 0

====
